---- MODULE Spec2Model ----
(***************************************************************************)
(* A model of the Monkey tree-walking evaluator (package evaluator) and    *)
(* its lexically nested environments (package object).                     *)
(*                                                                         *)
(* Go pointers to Environment are modelled as indices into `heap`, a       *)
(* sequence of frames; a frame is [store, outer] and outer = 0 is the nil  *)
(* pointer.  The Go functions mutate frames through those pointers, so     *)
(* every operator that evaluates threads the heap: it takes a record with  *)
(* the fields heap and log and returns [val, heap, log].                   *)
(* `log` is the history of the evaluation: one record per evaluated let,   *)
(* assignment, block, call, ... with the values the code saw at that       *)
(* point.  A Go panic (nil dereference, integer division by zero) unwinds  *)
(* the whole evaluation; it is modelled as the value Panic(msg), which     *)
(* every caller passes on before it looks at anything else.                *)
(***************************************************************************)
EXTENDS Integers, Sequences, FiniteSets, TLC

(***************************************************************************)
(* package object: object types and objects                                *)
(***************************************************************************)
INTEGER_OBJ == "INTEGER"
BOOLEAN_OBJ == "BOOLEAN"
STRING_OBJ == "STRING"
NULL_OBJ == "NULL"
RETURN_VALUE_OBJ == "RETURN_VALUE"
ERROR_OBJ == "ERROR"
FUNCTION_OBJ == "FUNCTION"
BULTIN_OBJ == "BUILTIN"

\* The nil interface value (an object.Object that holds nothing).
nil == [type |-> "nil"]

\* The nil *ast.BlockStatement (the Alternative of an `if` without `else`).
NoAlternative == [node |-> "nil"]

\* The three global objects of the evaluator; addr is the pointer identity
\* that `switch right { case TRUE: ...` compares.
NULL == [type |-> NULL_OBJ, addr |-> "NULL"]
TrueObj == [type |-> BOOLEAN_OBJ, Value |-> TRUE, addr |-> "TRUE"]
FalseObj == [type |-> BOOLEAN_OBJ, Value |-> FALSE, addr |-> "FALSE"]

\* A Go run-time panic that unwinds the evaluation.
Panic(msg) == [type |-> "PANIC", Message |-> msg]

IsPanic(obj) == obj.type = "PANIC"

IsNil(obj) == obj.type = "nil"

NewInteger(val) == [type |-> INTEGER_OBJ, Value |-> val]

NewString(val) == [type |-> STRING_OBJ, Value |-> val]

NewReturnValue(val) == [type |-> RETURN_VALUE_OBJ, Value |-> val]

NewFunction(params, body, env) ==
    [type |-> FUNCTION_OBJ, Parameters |-> params, Body |-> body, Env |-> env]

newError(msg) == [type |-> ERROR_OBJ, Message |-> msg]

isError(obj) == IF ~IsNil(obj) THEN obj.type = ERROR_OBJ ELSE FALSE

\* nativeBoolToBooleanObject that allocates, &object.Boolean{Value: input}.
nativeBoolToBooleanObject_Allocates(input) ==
    [type |-> BOOLEAN_OBJ, Value |-> input, addr |-> "fresh"]

nativeBoolToBooleanObject(input) == IF input THEN TrueObj ELSE FalseObj

(***************************************************************************)
(* package object: Environment                                             *)
(***************************************************************************)
EmptyStore == [n \in {} |-> NULL]

NewEnvironment == << [store |-> EmptyStore, outer |-> 0] >>

\* NewEnclosedEnviroment without `outer: outer`.
NewEnclosedEnviroment_NoOuter(heap, outer) ==
    Append(heap, [store |-> EmptyStore, outer |-> 0])

\* Allocates a frame; the new pointer is Len(heap) + 1.
NewEnclosedEnviroment(heap, outer) ==
    Append(heap, [store |-> EmptyStore, outer |-> outer])

RECURSIVE getWithEnv(_, _, _)

\* Get that looks in the store of the receiver only.
Get_CurrentFrameOnly(heap, e, name) ==
    IF name \in DOMAIN heap[e].store
    THEN [obj |-> heap[e].store[name], ok |-> TRUE]
    ELSE [obj |-> nil, ok |-> FALSE]

Get(heap, e, name) ==
    LET g == getWithEnv(heap, e, name) IN [obj |-> g.obj, ok |-> g.ok]

\* GetLocal that goes on to the outer scopes, as Get does.
GetLocal_WalksOuter(heap, e, name) == Get(heap, e, name)

GetLocal(heap, e, name) ==
    IF name \in DOMAIN heap[e].store
    THEN [obj |-> heap[e].store[name], ok |-> TRUE]
    ELSE [obj |-> nil, ok |-> FALSE]

\* getWithEnv that goes one scope outward and no further.
getWithEnv_OneScopeOutward(heap, e, name) ==
    IF name \in DOMAIN heap[e].store
    THEN [obj |-> heap[e].store[name], env |-> e, ok |-> TRUE]
    ELSE IF heap[e].outer # 0 /\ name \in DOMAIN heap[heap[e].outer].store
         THEN [obj |-> heap[heap[e].outer].store[name], env |-> heap[e].outer,
               ok |-> TRUE]
         ELSE [obj |-> nil, env |-> 0, ok |-> FALSE]

getWithEnv(heap, e, name) ==
    IF name \in DOMAIN heap[e].store
    THEN [obj |-> heap[e].store[name], env |-> e, ok |-> TRUE]
    ELSE IF heap[e].outer # 0
         THEN getWithEnv(heap, heap[e].outer, name)
         ELSE [obj |-> nil, env |-> 0, ok |-> FALSE]

SetStore(store, name, val) ==
    [n \in DOMAIN store \cup {name} |-> IF n = name THEN val ELSE store[n]]

\* e.store[name] = val; the result is the heap after the write.
Set(heap, e, name, val) ==
    [heap EXCEPT ![e].store = SetStore(@, name, val)]

\* Assign that writes the frame it is called on, env.Set replaced by e.Set.
Assign_SetsCurrentFrame(heap, e, name, val) ==
    LET g == getWithEnv(heap, e, name)
    IN  IF ~g.ok
        THEN [heap |-> heap,
              ret |-> newError("illegal assign, symbol not exist: " \o name)]
        ELSE [heap |-> Set(heap, e, name, val), ret |-> val]

\* The result is [heap, ret]: the heap after the call and the returned object.
Assign(heap, e, name, val) ==
    LET g == getWithEnv(heap, e, name)
    IN  IF ~g.ok
        THEN [heap |-> heap,
              ret |-> newError("illegal assign, symbol not exist: " \o name)]
        ELSE [heap |-> Set(heap, g.env, name, val), ret |-> val]

(***************************************************************************)
(* package evaluator: operators on objects                                 *)
(***************************************************************************)
\* Pointer comparison of an object with one of the global objects.
SamePointer(obj, global) ==
    obj.type \in {BOOLEAN_OBJ, NULL_OBJ} /\ obj.addr = global.addr

\* Go's integer division truncates toward zero and panics on a zero divisor.
GoQuotient(a, b) ==
    IF (a >= 0) = (b >= 0)
    THEN (IF a >= 0 THEN a ELSE -a) \div (IF b >= 0 THEN b ELSE -b)
    ELSE -((IF a >= 0 THEN a ELSE -a) \div (IF b >= 0 THEN b ELSE -b))

IntegerDivide(leftVal, rightVal) ==
    IF rightVal = 0
    THEN Panic("runtime error: integer divide by zero")
    ELSE NewInteger(GoQuotient(leftVal, rightVal))

unknownOperator(operator, left, right) ==
    newError("unknown operator: " \o left.type \o " " \o operator \o " " \o right.type)

evalIntegerInfixExpression(operator, left, right) ==
    LET leftVal == left.Value
        rightVal == right.Value
    IN  CASE operator = "+" -> NewInteger(leftVal + rightVal)
          [] operator = "-" -> NewInteger(leftVal - rightVal)
          [] operator = "*" -> NewInteger(leftVal * rightVal)
          [] operator = "/" -> IntegerDivide(leftVal, rightVal)
          [] operator = ">" -> nativeBoolToBooleanObject(leftVal > rightVal)
          [] operator = "<" -> nativeBoolToBooleanObject(leftVal < rightVal)
          [] operator = "==" -> nativeBoolToBooleanObject(leftVal = rightVal)
          [] operator = "!=" -> nativeBoolToBooleanObject(leftVal # rightVal)
          [] OTHER -> unknownOperator(operator, left, right)

evalBooleanInfixExpression(operator, left, right) ==
    LET leftVal == left.Value
        rightVal == right.Value
    IN  CASE operator = "==" -> nativeBoolToBooleanObject(leftVal = rightVal)
          [] operator = "!=" -> nativeBoolToBooleanObject(leftVal # rightVal)
          [] OTHER -> unknownOperator(operator, left, right)

evalStringInfixExpression(operator, left, right) ==
    LET leftVal == left.Value
        rightVal == right.Value
    IN  CASE operator = "+" -> NewString(leftVal \o rightVal)
          [] operator = "==" -> nativeBoolToBooleanObject(leftVal = rightVal)
          [] operator = "!=" -> nativeBoolToBooleanObject(leftVal # rightVal)
          [] OTHER -> unknownOperator(operator, left, right)

\* Every case of the switch calls left.Type() and, before it can be chosen,
\* right.Type(): a nil operand is a nil dereference.
evalInfixExpression(operator, left, right) ==
    IF IsNil(left) \/ IsNil(right)
    THEN Panic("runtime error: invalid memory address or nil pointer dereference")
    ELSE CASE left.type = INTEGER_OBJ /\ right.type = INTEGER_OBJ ->
                evalIntegerInfixExpression(operator, left, right)
           [] left.type = BOOLEAN_OBJ /\ right.type = BOOLEAN_OBJ ->
                evalBooleanInfixExpression(operator, left, right)
           [] left.type = STRING_OBJ /\ right.type = STRING_OBJ ->
                evalStringInfixExpression(operator, left, right)
           [] OTHER ->
                IF left.type # right.type
                THEN newError("type mismatch: " \o left.type \o " " \o operator
                              \o " " \o right.type)
                ELSE unknownOperator(operator, left, right)

evalBangOperatorExpression(right) ==
    IF SamePointer(right, TrueObj) THEN FalseObj
    ELSE IF SamePointer(right, FalseObj) \/ SamePointer(right, NULL) THEN TrueObj
    ELSE IF right.type = INTEGER_OBJ THEN nativeBoolToBooleanObject(right.Value = 0)
    ELSE IF IsNil(right)
         THEN Panic("runtime error: invalid memory address or nil pointer dereference")
         ELSE newError("unknown operator: !" \o right.type)

evalMinusPrefixOperatorExpression(right) ==
    IF right.type = INTEGER_OBJ THEN NewInteger(-right.Value)
    ELSE IF IsNil(right)
         THEN Panic("runtime error: invalid memory address or nil pointer dereference")
         ELSE newError("unknown operator: -" \o right.type)

evalPrefixExpression(operator, right) ==
    CASE operator = "!" -> evalBangOperatorExpression(right)
      [] operator = "-" -> evalMinusPrefixOperatorExpression(right)
      [] OTHER -> nil

isTruthy(obj) ==
    IF SamePointer(obj, NULL) THEN FALSE
    ELSE IF SamePointer(obj, TrueObj) THEN TRUE
    ELSE IF SamePointer(obj, FalseObj) THEN FALSE
    ELSE IF obj.type = INTEGER_OBJ THEN obj.Value # 0
    ELSE FALSE

(***************************************************************************)
(* package evaluator: Eval                                                 *)
(*                                                                         *)
(* AST nodes are records whose field `node` is the Go type of the node;    *)
(* the other fields are those of the Go struct.                            *)
(***************************************************************************)
\* The value an evaluation returns, with the heap and the history it leaves.
Done(val, st) == [val |-> val, heap |-> st.heap, log |-> st.log]

Emit(st, event) == [heap |-> st.heap, log |-> Append(st.log, event)]

WithHeap(st, heap) == [heap |-> heap, log |-> st.log]

\* The names of the table `builtins` that evalIdentifier consults.
builtins == {"len", "first", "last", "rest", "push"}

\* A builtin applied to its arguments: the argument count is checked first;
\* len takes a string (there is no array literal in this Eval), the others
\* take an array.  The messages quote the name with ' where the builtin
\* writes a backquote.
applyBuiltin(name, args) ==
    LET want == IF name = "push" THEN 2 ELSE 1
    IN  IF Len(args) # want
        THEN newError("wrong number of arguments. got=" \o ToString(Len(args))
                      \o ", want=" \o ToString(want))
        ELSE IF IsNil(args[1])
        THEN Panic("runtime error: invalid memory address or nil pointer dereference")
        ELSE IF name = "len" /\ args[1].type = STRING_OBJ
        THEN NewInteger(Len(args[1].Value))
        ELSE IF name = "len"
        THEN newError("argument to 'len' not supported, got " \o args[1].type)
        ELSE newError("argument to '" \o name \o "' must be ARRAY, got "
                      \o args[1].type)

evalIdentifier(node, env, heap) ==
    LET g == Get(heap, env, node.Value)
    IN  IF g.ok THEN g.obj
        ELSE IF node.Value \in builtins
             THEN [type |-> BULTIN_OBJ, Name |-> node.Value]
             ELSE newError("identifier not found: " \o node.Value)

RECURSIVE Eval(_, _, _)
RECURSIVE evalBlockStatement(_, _, _)
RECURSIVE evalBlockStatementFrom(_, _, _, _, _, _)
RECURSIVE evalExpressions(_, _, _)
RECURSIVE evalExpressionsFrom(_, _, _, _, _)
RECURSIVE evalIfExpression(_, _, _, _, _)
RECURSIVE applyFunction(_, _, _)

\* A function literal that captures a copy of the environment, not env.
EvalFunctionLiteral_CopiesEnv(v, env, st) ==
    LET heap == Append(st.heap, st.heap[env])
        fn == NewFunction(v.Parameters, v.Body, Len(heap))
    IN  Done(fn, Emit(WithHeap(st, heap), [k |-> "fnlit", env |-> env, fn |-> fn]))

\* case *ast.FunctionLiteral
EvalFunctionLiteral(v, env, st) ==
    LET fn == NewFunction(v.Parameters, v.Body, env)
    IN  Done(fn, Emit(st, [k |-> "fnlit", env |-> env, fn |-> fn]))

\* case *ast.ReturnStatement
EvalReturnStatement(v, env, st) ==
    LET r == Eval(v.ReturnValue, env, st)
    IN  IF IsPanic(r.val) THEN r
        ELSE IF isError(r.val) THEN r
        ELSE Done(NewReturnValue(r.val),
                  Emit(r, [k |-> "return", operand |-> r.val]))

\* case *ast.LetStatement; after env.Set the switch is left and Eval
\* returns NULL.  The event has the heap at entry, after the right-hand side
\* (before) and at the end (after).
EvalLetStatement(v, env, st) ==
    LET l == GetLocal(st.heap, env, v.Name)
    IN  IF l.ok
        THEN LET err == newError("identifier exist: " \o v.Name)
             IN  Done(err,
                      Emit(st, [k |-> "let", env |-> env, name |-> v.Name,
                                exists |-> TRUE, val |-> nil, res |-> err,
                                entry |-> st.heap, before |-> st.heap,
                                after |-> st.heap]))
        ELSE LET r == Eval(v.Value, env, st)
             IN  IF IsPanic(r.val) THEN r
                 ELSE IF isError(r.val) THEN r
                 ELSE LET heap == Set(r.heap, env, v.Name, r.val)
                      IN  Done(NULL,
                               Emit(WithHeap(r, heap),
                                    [k |-> "let", env |-> env, name |-> v.Name,
                                     exists |-> FALSE, val |-> r.val,
                                     res |-> NULL, entry |-> st.heap,
                                     before |-> r.heap, after |-> heap]))

\* case *ast.AssignStatement; the object env.Assign returns is dropped.
EvalAssignStatement(v, env, st) ==
    LET r == Eval(v.Value, env, st)
    IN  IF IsPanic(r.val) THEN r
        ELSE IF isError(r.val) THEN r
        ELSE LET a == Assign(r.heap, env, v.Name, r.val)
             IN  Done(r.val,
                      Emit(WithHeap(r, a.heap),
                           [k |-> "assign", env |-> env, name |-> v.Name,
                            val |-> r.val, ret |-> a.ret, res |-> r.val,
                            before |-> r.heap, after |-> a.heap]))

\* case *ast.PrefixExpression
EvalPrefixExpression(v, env, st) ==
    LET r == Eval(v.Right, env, st)
    IN  IF IsPanic(r.val) THEN r
        ELSE IF isError(r.val) THEN r
        ELSE Done(evalPrefixExpression(v.Operator, r.val),
                  Emit(r, [k |-> "prefix", operator |-> v.Operator,
                           right |-> r.val,
                           res |-> evalPrefixExpression(v.Operator, r.val)]))

\* The end of the case *ast.InfixExpression, both operands evaluated.
infixOutcome(operator, lVal, rVal, st) ==
    Done(evalInfixExpression(operator, lVal, rVal),
         Emit(st, [k |-> "infix", operator |-> operator, left |-> lVal,
                   right |-> rVal,
                   res |-> evalInfixExpression(operator, lVal, rVal)]))

\* The case *ast.InfixExpression with v.Right evaluated before v.Left.
EvalInfixExpression_RightFirst(v, env, st) ==
    LET r == Eval(v.Right, env, st)
    IN  IF IsPanic(r.val) THEN r
        ELSE IF isError(r.val) THEN r
        ELSE LET l == Eval(v.Left, env, r)
             IN  IF IsPanic(l.val) THEN l
                 ELSE IF isError(l.val) THEN l
                 ELSE infixOutcome(v.Operator, l.val, r.val, l)

\* case *ast.InfixExpression
EvalInfixExpression(v, env, st) ==
    LET l == Eval(v.Left, env, st)
    IN  IF IsPanic(l.val) THEN l
        ELSE IF isError(l.val) THEN l
        ELSE LET r == Eval(v.Right, env, l)
             IN  IF IsPanic(r.val) THEN r
                 ELSE IF isError(r.val) THEN r
                 ELSE infixOutcome(v.Operator, l.val, r.val, r)

\* case *ast.IfExpression
EvalIfExpression(v, env, st) ==
    LET r == Eval(v.Condition, env, st)
    IN  IF IsPanic(r.val) THEN r
        ELSE IF isError(r.val) THEN r
        ELSE evalIfExpression(r.val, v.Consequence, v.Alternative, env,
                              Emit(r, [k |-> "if", condition |-> r.val,
                                       truthy |-> isTruthy(r.val)]))

\* The case *ast.CallExpression with v.Arguments evaluated before
\* v.Function.
EvalCallExpression_ArgumentsFirst(v, env, st) ==
    LET a == evalExpressions(v.Arguments, env, st)
    IN  IF a.panic THEN Done(a.val, a)
        ELSE IF Len(a.val) # 0 /\ isError(a.val[1]) THEN Done(a.val[1], a)
        ELSE LET f == Eval(v.Function, env, a)
             IN  IF IsPanic(f.val) THEN f
                 ELSE IF isError(f.val) THEN f
                 ELSE applyFunction(f.val, a.val, f)

\* case *ast.CallExpression
EvalCallExpression(v, env, st) ==
    LET f == Eval(v.Function, env, st)
    IN  IF IsPanic(f.val) THEN f
        ELSE IF isError(f.val) THEN f
        ELSE LET a == evalExpressions(v.Arguments, env, f)
             IN  IF a.panic THEN Done(a.val, a)
                 ELSE IF Len(a.val) # 0 /\ isError(a.val[1])
                      THEN Done(a.val[1], a)
                      ELSE applyFunction(f.val, a.val, a)

Eval(node, env, st) ==
    CASE node.node = "IntegerLiteral" -> Done(NewInteger(node.Value), st)
      [] node.node = "BooleanLiteral" ->
            Done(nativeBoolToBooleanObject(node.Value), st)
      [] node.node = "StringLiteral" -> Done(NewString(node.Value), st)
      [] node.node = "Identifier" -> Done(evalIdentifier(node, env, st.heap), st)
      [] node.node = "FunctionLiteral" -> EvalFunctionLiteral(node, env, st)
      [] node.node = "ExpressionStatement" -> Eval(node.Expression, env, st)
      [] node.node = "BlockStatement" ->
            evalBlockStatement(node.Statements, env, st)
      [] node.node = "ReturnStatement" -> EvalReturnStatement(node, env, st)
      [] node.node = "LetStatement" -> EvalLetStatement(node, env, st)
      [] node.node = "AssignStatement" -> EvalAssignStatement(node, env, st)
      [] node.node = "PrefixExpression" -> EvalPrefixExpression(node, env, st)
      [] node.node = "InfixExpression" -> EvalInfixExpression(node, env, st)
      [] node.node = "IfExpression" -> EvalIfExpression(node, env, st)
      [] node.node = "CallExpression" -> EvalCallExpression(node, env, st)
      [] OTHER -> Done(NULL, st)

\* evalBlockStatement without the check for ERROR_OBJ (as it was before
\* errors were added: src/evaluator/evaluator.go).
blockStatementOutcome_NoErrorCheck(result) ==
    IF IsNil(result) THEN "panic"
    ELSE IF result.type = RETURN_VALUE_OBJ THEN "return"
    ELSE "next"

\* What one round of the loop of evalBlockStatement does with the value of
\* its statement: "return" ends the loop with that value, "next" goes on,
\* "panic" is result.Type() on a nil result.
blockStatementOutcome(result) ==
    IF IsNil(result) THEN "panic"
    ELSE IF result.type = ERROR_OBJ THEN "return"
    ELSE IF result.type = RETURN_VALUE_OBJ THEN "return"
    ELSE "next"

\* The loop of evalBlockStatement from statement i on; result is the value
\* of the statement before (nil before the first), vals the values so far.
evalBlockStatementFrom(stmts, i, result, vals, env, st) ==
    IF i > Len(stmts)
    THEN Done(result, Emit(st, [k |-> "block", env |-> env, n |-> Len(stmts),
                                vals |-> vals, res |-> result]))
    ELSE LET r == Eval(stmts[i], env, st)
             o == blockStatementOutcome(r.val)
         IN  IF IsPanic(r.val) THEN r
             ELSE IF o = "panic"
                  THEN Done(Panic("runtime error: invalid memory address or nil pointer dereference"), r)
             ELSE IF o = "return"
                  THEN Done(r.val,
                            Emit(r, [k |-> "block", env |-> env,
                                     n |-> Len(stmts),
                                     vals |-> Append(vals, r.val),
                                     res |-> r.val]))
             ELSE evalBlockStatementFrom(stmts, i + 1, r.val,
                                         Append(vals, r.val), env, r)

evalBlockStatement(stmts, env, st) ==
    evalBlockStatementFrom(stmts, 1, nil, <<>>, env, st)

evalIfExpression(condition, consequence, alternative, env, st) ==
    IF isTruthy(condition) THEN Eval(consequence, env, st)
    ELSE IF alternative.node = "nil" THEN Done(NULL, st)
    ELSE Eval(alternative, env, st)

\* The list of objects evalExpressions returns (panic = FALSE), or the panic
\* that ended it (panic = TRUE).
Objects(val, panic, st) ==
    [val |-> val, panic |-> panic, heap |-> st.heap, log |-> st.log]

\* The loop of evalExpressions from expression i on; res is the list so far.
evalExpressionsFrom(exprs, i, res, env, st) ==
    IF i > Len(exprs) THEN Objects(res, FALSE, st)
    ELSE LET r == Eval(exprs[i], env, st)
         IN  IF IsPanic(r.val) THEN Objects(r.val, TRUE, r)
             ELSE IF isError(r.val) THEN Objects(<<r.val>>, FALSE, r)
             ELSE evalExpressionsFrom(exprs, i + 1, Append(res, r.val), env, r)

evalExpressions(exprs, env, st) == evalExpressionsFrom(exprs, 1, <<>>, env, st)

\* env.Set(param.String(), args[i]) for every parameter, in order.
RECURSIVE bindParameters(_, _, _, _, _)
bindParameters(heap, env, params, args, i) ==
    IF i > Len(params) THEN heap
    ELSE bindParameters(Set(heap, env, params[i], args[i]), env, params, args,
                        i + 1)

\* An arity test that lets a call with too many arguments through.
arityMismatch_OnlyTooFew(fn, args) == Len(args) < Len(fn.Parameters)

\* if len(args) != len(f.Parameters)
arityMismatch(fn, args) == Len(args) # Len(fn.Parameters)

\* The end of applyFunction: the value of the body, one ReturnValue stripped.
unwrapReturnValue(val) ==
    IF val.type = RETURN_VALUE_OBJ THEN val.Value ELSE val

applyFunction(fn, args, st) ==
    IF IsNil(fn)
    THEN Done(Panic("runtime error: invalid memory address or nil pointer dereference"), st)
    ELSE IF fn.type = BULTIN_OBJ
    THEN Done(applyBuiltin(fn.Name, args), st)
    ELSE IF fn.type = FUNCTION_OBJ
    THEN IF arityMismatch(fn, args)
         THEN LET err == newError("args number mismatch, expect lenght: "
                                  \o ToString(Len(fn.Parameters))
                                  \o ", but got: " \o ToString(Len(args)))
              IN  Done(err, Emit(st, [k |-> "arity", fn |-> fn, args |-> args,
                                      before |-> st.heap, res |-> err]))
         ELSE LET alloc == NewEnclosedEnviroment(st.heap, fn.Env)
                  env == Len(alloc)
                  heap == bindParameters(alloc, env, fn.Parameters, args, 1)
                  r == Eval(fn.Body, env, WithHeap(st, heap))
              IN  IF IsPanic(r.val) THEN r
                  ELSE Done(unwrapReturnValue(r.val),
                            Emit(r, [k |-> "call", fn |-> fn, args |-> args,
                                     env |-> env, before |-> st.heap,
                                     bound |-> heap, body |-> r.val,
                                     res |-> unwrapReturnValue(r.val)]))
    ELSE Done(newError("not a function: " \o fn.type), st)

(***************************************************************************)
(* package ast: constructors of the nodes Eval dispatches on.  A name      *)
(* (LetStatement.Name, a parameter) is the string of its Identifier.       *)
(***************************************************************************)
IntegerLiteral(value) == [node |-> "IntegerLiteral", Value |-> value]

BooleanLiteral(value) == [node |-> "BooleanLiteral", Value |-> value]

StringLiteral(value) == [node |-> "StringLiteral", Value |-> value]

Identifier(value) == [node |-> "Identifier", Value |-> value]

BlockStatement(stmts) == [node |-> "BlockStatement", Statements |-> stmts]

FunctionLiteral(params, stmts) ==
    [node |-> "FunctionLiteral", Parameters |-> params,
     Body |-> BlockStatement(stmts)]

ExpressionStatement(expr) == [node |-> "ExpressionStatement", Expression |-> expr]

ReturnStatement(expr) == [node |-> "ReturnStatement", ReturnValue |-> expr]

LetStatement(name, expr) == [node |-> "LetStatement", Name |-> name, Value |-> expr]

AssignStatement(name, expr) ==
    [node |-> "AssignStatement", Name |-> name, Value |-> expr]

PrefixExpression(operator, right) ==
    [node |-> "PrefixExpression", Operator |-> operator, Right |-> right]

InfixExpression(left, operator, right) ==
    [node |-> "InfixExpression", Operator |-> operator, Left |-> left,
     Right |-> right]

IfExpression(cond, consequence, alternative) ==
    [node |-> "IfExpression", Condition |-> cond,
     Consequence |-> BlockStatement(consequence), Alternative |-> alternative]

CallExpression(function, arguments) ==
    [node |-> "CallExpression", Function |-> function, Arguments |-> arguments]

(***************************************************************************)
(* Programs (the inputs of Eval), written as the parser builds them.       *)
(***************************************************************************)
Num(n) == IntegerLiteral(n)

Id(x) == Identifier(x)

ES(expr) == ExpressionStatement(expr)

Call(f, args) == CallExpression(Id(f), args)

\* if (true) { return n; }
ReturnInIf(n) ==
    IfExpression(BooleanLiteral(TRUE), <<ReturnStatement(Num(n))>>, NoAlternative)

\* let f = fn() { if (true) { return 1; } 2 }; f(); 5
ProgReturnInCallee ==
    << LetStatement("f", FunctionLiteral(<<>>, <<ES(ReturnInIf(1)), ES(Num(2))>>)),
       ES(Call("f", <<>>)),
       ES(Num(5)) >>

\* let f = fn() { if (true) { if (true) { return 1; } 3 } 2 }; let x = f(); x + 10
ProgReturnDeepInCallee ==
    << LetStatement("f", FunctionLiteral(<<>>,
          << ES(IfExpression(BooleanLiteral(TRUE),
                             <<ES(ReturnInIf(1)), ES(Num(3))>>, NoAlternative)),
             ES(Num(2)) >>)),
       LetStatement("x", Call("f", <<>>)),
       ES(InfixExpression(Id("x"), "+", Num(10))) >>

\* let g = fn() { return 1; }; let f = fn() { g(); 2 }; f()
ProgCalleeOfCallee ==
    << LetStatement("g", FunctionLiteral(<<>>, <<ReturnStatement(Num(1))>>)),
       LetStatement("f", FunctionLiteral(<<>>, <<ES(Call("g", <<>>)), ES(Num(2))>>)),
       ES(Call("f", <<>>)) >>

\* let x = if (true) { return 1; }; x; 5
ProgLetOfReturn ==
    << LetStatement("x", ReturnInIf(1)), ES(Id("x")), ES(Num(5)) >>

\* return if (true) { return 1; };
ProgReturnOfReturn == << ReturnStatement(ReturnInIf(1)) >>

\* let f = fn() { return if (true) { return 1; }; }; f(); 5
ProgCallReturnOfReturn ==
    << LetStatement("f", FunctionLiteral(<<>>, <<ReturnStatement(ReturnInIf(1))>>)),
       ES(Call("f", <<>>)),
       ES(Num(5)) >>

\* let id = fn(a) { a }; id(if (true) { return 1; }); 5
ProgArgumentOfReturn ==
    << LetStatement("id", FunctionLiteral(<<"a">>, <<ES(Id("a"))>>)),
       ES(Call("id", <<ReturnInIf(1)>>)),
       ES(Num(5)) >>

\* if (true) { let x = if (true) { return 1; }; 7 }
ProgBlockLetOfReturn ==
    << ES(IfExpression(BooleanLiteral(TRUE),
                       <<LetStatement("x", ReturnInIf(1)), ES(Num(7))>>,
                       NoAlternative)) >>

\* if (1 < 2) { if (10 > 1) { return 10; } return 1; }
ProgNestedIfReturn ==
    << ES(IfExpression(InfixExpression(Num(1), "<", Num(2)),
          << ES(IfExpression(InfixExpression(Num(10), ">", Num(1)),
                             <<ReturnStatement(Num(10))>>, NoAlternative)),
             ReturnStatement(Num(1)) >>,
          NoAlternative)) >>

\* if (true) { if (true) { if (true) { return 1; } 2 } 3 } 4
ProgNestedIfReturnThenMore ==
    << ES(IfExpression(BooleanLiteral(TRUE),
          << ES(IfExpression(BooleanLiteral(TRUE),
                             <<ES(ReturnInIf(1)), ES(Num(2))>>, NoAlternative)),
             ES(Num(3)) >>,
          NoAlternative)),
       ES(Num(4)) >>

\* 1; return 2; let y = 3;
ProgReturnThenLet ==
    << ES(Num(1)), ReturnStatement(Num(2)), LetStatement("y", Num(3)) >>

\* let x = 1; zz; x = 2;
ProgErrorThenAssign ==
    << LetStatement("x", Num(1)), ES(Id("zz")), AssignStatement("x", Num(2)) >>

\* 1; 2; 3
ProgThreeValues == << ES(Num(1)), ES(Num(2)), ES(Num(3)) >>

\* let f = fn() { if (true) { zz; 1 } 2 }; f(); 5
ProgErrorInCallee ==
    << LetStatement("f", FunctionLiteral(<<>>,
          << ES(IfExpression(BooleanLiteral(TRUE),
                             <<ES(Id("zz")), ES(Num(1))>>, NoAlternative)),
             ES(Num(2)) >>)),
       ES(Call("f", <<>>)),
       ES(Num(5)) >>

\* let g = fn() { 1 + true; 3 }; let f = fn() { g(); 2 }; let x = f(); 5
ProgErrorInCalleeOfCallee ==
    << LetStatement("g", FunctionLiteral(<<>>,
          << ES(InfixExpression(Num(1), "+", BooleanLiteral(TRUE))), ES(Num(3)) >>)),
       LetStatement("f", FunctionLiteral(<<>>, <<ES(Call("g", <<>>)), ES(Num(2))>>)),
       LetStatement("x", Call("f", <<>>)),
       ES(Num(5)) >>

\* let f = fn() { x }; let x = 5; f()
ProgClosureSeesLaterLet ==
    << LetStatement("f", FunctionLiteral(<<>>, <<ES(Id("x"))>>)),
       LetStatement("x", Num(5)),
       ES(Call("f", <<>>)) >>

\* let x = 1; let f = fn() { x }; x = 2; f()
ProgClosureSeesLaterAssign ==
    << LetStatement("x", Num(1)),
       LetStatement("f", FunctionLiteral(<<>>, <<ES(Id("x"))>>)),
       AssignStatement("x", Num(2)),
       ES(Call("f", <<>>)) >>

\* let mk = fn() { let f = fn() { y }; let y = 7; f }; let h = mk(); h()
ProgClosureSeesLaterLetInFrame ==
    << LetStatement("mk", FunctionLiteral(<<>>,
          << LetStatement("f", FunctionLiteral(<<>>, <<ES(Id("y"))>>)),
             LetStatement("y", Num(7)),
             ES(Id("f")) >>)),
       LetStatement("h", Call("mk", <<>>)),
       ES(Call("h", <<>>)) >>

\* The counter of the book:
\*   let counter = fn() { let n = 0; fn() { n = n + 1; n } };
\*   let c = counter(); c(); ... c();      (k calls of c)
ProgCounter(k) ==
    << LetStatement("counter", FunctionLiteral(<<>>,
          << LetStatement("n", Num(0)),
             ES(FunctionLiteral(<<>>,
                   << AssignStatement("n", InfixExpression(Id("n"), "+", Num(1))),
                      ES(Id("n")) >>)) >>)),
       LetStatement("c", Call("counter", <<>>)) >>
    \o [i \in 1..k |-> ES(Call("c", <<>>))]

\* Two closures of one call frame, k calls of the first, then the second:
\*   let mk = fn() { let n = 0; let inc = fn() { n = n + 1; n };
\*                   let get = fn() { n }; inc(); ... inc(); get() };
\*   mk()
ProgSiblings(k) ==
    << LetStatement("mk", FunctionLiteral(<<>>,
          << LetStatement("n", Num(0)),
             LetStatement("inc", FunctionLiteral(<<>>,
                   << AssignStatement("n", InfixExpression(Id("n"), "+", Num(1))),
                      ES(Id("n")) >>)),
             LetStatement("get", FunctionLiteral(<<>>, <<ES(Id("n"))>>)) >>
          \o [i \in 1..k |-> ES(Call("inc", <<>>))]
          \o << ES(Call("get", <<>>)) >>)),
       ES(Call("mk", <<>>)) >>

\* let x = 1; let f = fn(x) { x + 1 }; f(10); x
ProgParameterShadows ==
    << LetStatement("x", Num(1)),
       LetStatement("f", FunctionLiteral(<<"x">>,
          <<ES(InfixExpression(Id("x"), "+", Num(1)))>>)),
       ES(Call("f", <<Num(10)>>)),
       ES(Id("x")) >>

\* let f = fn() { y }; let g = fn() { let y = 1; f() }; g()
ProgCallerFrameInvisible ==
    << LetStatement("f", FunctionLiteral(<<>>, <<ES(Id("y"))>>)),
       LetStatement("g", FunctionLiteral(<<>>,
          <<LetStatement("y", Num(1)), ES(Call("f", <<>>))>>)),
       ES(Call("g", <<>>)) >>

\* let f = fn(a) { a }; let g = fn() { let a = 7; f(1); a }; g()
ProgCallerBindingKept ==
    << LetStatement("f", FunctionLiteral(<<"a">>, <<ES(Id("a"))>>)),
       LetStatement("g", FunctionLiteral(<<>>,
          <<LetStatement("a", Num(7)), ES(Call("f", <<Num(1)>>)), ES(Id("a"))>>)),
       ES(Call("g", <<>>)) >>

\* let x = 1; let x = 2; x
ProgLetTwice ==
    << LetStatement("x", Num(1)), LetStatement("x", Num(2)), ES(Id("x")) >>

\* let x = 1; let f = fn() { let x = 2; x }; f(); x
ProgLetShadowsOuter ==
    << LetStatement("x", Num(1)),
       LetStatement("f", FunctionLiteral(<<>>,
          <<LetStatement("x", Num(2)), ES(Id("x"))>>)),
       ES(Call("f", <<>>)),
       ES(Id("x")) >>

\* let x = 1; let f = fn() { let x = 2; x }; f(); let x = 3;
ProgLetShadowsThenTwice ==
    << LetStatement("x", Num(1)),
       LetStatement("f", FunctionLiteral(<<>>,
          <<LetStatement("x", Num(2)), ES(Id("x"))>>)),
       ES(Call("f", <<>>)),
       LetStatement("x", Num(3)) >>

\* let f = fn(a) { let a = 2; a }; f(1)
ProgLetOfParameter ==
    << LetStatement("f", FunctionLiteral(<<"a">>,
          <<LetStatement("a", Num(2)), ES(Id("a"))>>)),
       ES(Call("f", <<Num(1)>>)) >>

\* let n = 0; let f = fn(a) { n = 1; a }; let h = fn() { n = 3; 3 };
\* let g = fn() { f(2, h()) }; g(); n
ProgTooManyArguments ==
    << LetStatement("n", Num(0)),
       LetStatement("f", FunctionLiteral(<<"a">>,
          <<AssignStatement("n", Num(1)), ES(Id("a"))>>)),
       LetStatement("h", FunctionLiteral(<<>>,
          <<AssignStatement("n", Num(3)), ES(Num(3))>>)),
       LetStatement("g", FunctionLiteral(<<>>,
          <<ES(Call("f", <<Num(2), Call("h", <<>>)>>))>>)),
       ES(Call("g", <<>>)),
       ES(Id("n")) >>

\* let n = 0; let f = fn(a, b) { n = 1; a }; let x = f(2) + 1; n
ProgTooFewArguments ==
    << LetStatement("n", Num(0)),
       LetStatement("f", FunctionLiteral(<<"a", "b">>,
          <<AssignStatement("n", Num(1)), ES(Id("a"))>>)),
       LetStatement("x", InfixExpression(Call("f", <<Num(2)>>), "+", Num(1))),
       ES(Id("n")) >>

\* let n = 0; let l = fn() { n = n + 1; n }; let r = fn() { n = n * 2; n + 2 };
\* l() op r(); n
ProgInfixOrder(op) ==
    << LetStatement("n", Num(0)),
       LetStatement("l", FunctionLiteral(<<>>,
          << AssignStatement("n", InfixExpression(Id("n"), "+", Num(1))),
             ES(Id("n")) >>)),
       LetStatement("r", FunctionLiteral(<<>>,
          << AssignStatement("n", InfixExpression(Id("n"), "*", Num(2))),
             ES(InfixExpression(Id("n"), "+", Num(2))) >>)),
       ES(InfixExpression(Call("l", <<>>), op, Call("r", <<>>))),
       ES(Id("n")) >>

\* let n = 0; let r = fn() { n = 5; n }; zz op r(); n
ProgInfixLeftError(op) ==
    << LetStatement("n", Num(0)),
       LetStatement("r", FunctionLiteral(<<>>,
          <<AssignStatement("n", Num(5)), ES(Id("n"))>>)),
       ES(InfixExpression(Id("zz"), op, Call("r", <<>>))),
       ES(Id("n")) >>

\* let n = 0; let l = fn() { n = 1; true + 1 }; let r = fn() { n = 5; n };
\* l() op r(); n
ProgInfixLeftCallError(op) ==
    << LetStatement("n", Num(0)),
       LetStatement("l", FunctionLiteral(<<>>,
          << AssignStatement("n", Num(1)),
             ES(InfixExpression(BooleanLiteral(TRUE), "+", Num(1))) >>)),
       LetStatement("r", FunctionLiteral(<<>>,
          <<AssignStatement("n", Num(5)), ES(Id("n"))>>)),
       ES(InfixExpression(Call("l", <<>>), op, Call("r", <<>>))),
       ES(Id("n")) >>

\* let n = 0; let mk = fn() { n = n + 1; fn(a, b) { a * 10 + b } };
\* let p = fn() { n = n + 1; n }; let q = fn() { n = n * 2; n };
\* mk()(p(), q()); n
ProgCallOrder ==
    << LetStatement("n", Num(0)),
       LetStatement("mk", FunctionLiteral(<<>>,
          << AssignStatement("n", InfixExpression(Id("n"), "+", Num(1))),
             ES(FunctionLiteral(<<"a", "b">>,
                   <<ES(InfixExpression(InfixExpression(Id("a"), "*", Num(10)),
                                        "+", Id("b")))>>)) >>)),
       LetStatement("p", FunctionLiteral(<<>>,
          << AssignStatement("n", InfixExpression(Id("n"), "+", Num(1))),
             ES(Id("n")) >>)),
       LetStatement("q", FunctionLiteral(<<>>,
          << AssignStatement("n", InfixExpression(Id("n"), "*", Num(2))),
             ES(Id("n")) >>)),
       ES(CallExpression(Call("mk", <<>>), <<Call("p", <<>>), Call("q", <<>>)>>)),
       ES(Id("n")) >>

\* let n = 0; let t = fn() { n = 1; n }; zz(t()); n
ProgCalleeError ==
    << LetStatement("n", Num(0)),
       LetStatement("t", FunctionLiteral(<<>>,
          <<AssignStatement("n", Num(1)), ES(Id("n"))>>)),
       ES(Call("zz", <<Call("t", <<>>)>>)),
       ES(Id("n")) >>

\* let n = 0; let f = fn(a, b, c) { n = 9; a };
\* let t = fn() { n = n + 1; n }; f(t(), zz, t()); n
ProgArgumentError ==
    << LetStatement("n", Num(0)),
       LetStatement("f", FunctionLiteral(<<"a", "b", "c">>,
          <<AssignStatement("n", Num(9)), ES(Id("a"))>>)),
       LetStatement("t", FunctionLiteral(<<>>,
          << AssignStatement("n", InfixExpression(Id("n"), "+", Num(1))),
             ES(Id("n")) >>)),
       ES(Call("f", <<Call("t", <<>>), Id("zz"), Call("t", <<>>)>>)),
       ES(Id("n")) >>

\* if (c) { 1 } else { 2 }
ProgIfElse(c) ==
    << ES(IfExpression(c, <<ES(Num(1))>>, BlockStatement(<<ES(Num(2))>>))) >>

\* !c
ProgBang(c) == << ES(PrefixExpression("!", c)) >>

\* a op b
ProgInfix(op, a, b) == << ES(InfixExpression(a, op, b)) >>

\* let t = 1 < 2; let f = !t; let n = if (f) { 1 }; if (t == !f) { !n }
ProgBooleanReadBack ==
    << LetStatement("t", InfixExpression(Num(1), "<", Num(2))),
       LetStatement("f", PrefixExpression("!", Id("t"))),
       LetStatement("n", IfExpression(Id("f"), <<ES(Num(1))>>, NoAlternative)),
       ES(IfExpression(InfixExpression(Id("t"), "==",
                                       PrefixExpression("!", Id("f"))),
                       <<ES(PrefixExpression("!", Id("n")))>>, NoAlternative)) >>

\* let f = fn() { if (true) {} 1 }; f()
ProgEmptyBranchInBlock ==
    << LetStatement("f", FunctionLiteral(<<>>,
          << ES(IfExpression(BooleanLiteral(TRUE), <<>>, NoAlternative)),
             ES(Num(1)) >>)),
       ES(Call("f", <<>>)) >>

\* let f = fn() { }; f()
ProgEmptyBody ==
    << LetStatement("f", FunctionLiteral(<<>>, <<>>)), ES(Call("f", <<>>)) >>

\* let n = 0; let f = fn() { n = 1; zz }; let x = 1; let x = f(); n
ProgLetBoundOfError ==
    << LetStatement("n", Num(0)),
       LetStatement("f", FunctionLiteral(<<>>,
          <<AssignStatement("n", Num(1)), ES(Id("zz"))>>)),
       LetStatement("x", Num(1)),
       LetStatement("x", Call("f", <<>>)),
       ES(Id("n")) >>

\* let n = 0; let f = fn() { n = 1; zz }; let y = f(); n
ProgLetUnboundOfError ==
    << LetStatement("n", Num(0)),
       LetStatement("f", FunctionLiteral(<<>>,
          <<AssignStatement("n", Num(1)), ES(Id("zz"))>>)),
       LetStatement("y", Call("f", <<>>)),
       ES(Id("n")) >>

\* let a = fn() { let b = fn() { let c = fn() { 1 }; c() }; b() }; a()
ProgNestedDefinitions ==
    << LetStatement("a", FunctionLiteral(<<>>,
          << LetStatement("b", FunctionLiteral(<<>>,
                << LetStatement("c", FunctionLiteral(<<>>, <<ES(Num(1))>>)),
                   ES(Call("c", <<>>)) >>)),
             ES(Call("b", <<>>)) >>)),
       ES(Call("a", <<>>)) >>

\* let x = 1; if (true) { let x = 2; x }; x
ProgLetInIfShadows ==
    << LetStatement("x", Num(1)),
       ES(IfExpression(BooleanLiteral(TRUE),
                       <<LetStatement("x", Num(2)), ES(Id("x"))>>, NoAlternative)),
       ES(Id("x")) >>

\* if (true) { let y = 5; y }; y
ProgLetInIfThenUse ==
    << ES(IfExpression(BooleanLiteral(TRUE),
                       <<LetStatement("y", Num(5)), ES(Id("y"))>>, NoAlternative)),
       ES(Id("y")) >>

\* let s = "ab"; len(s) + len("c", s)
ProgBuiltin ==
    << LetStatement("s", StringLiteral("ab")),
       ES(InfixExpression(Call("len", <<Id("s")>>), "+",
                          Call("len", <<StringLiteral("c"), Id("s")>>))) >>

\* a / b
ProgDivide(a, b) == << ES(InfixExpression(Num(a), "/", Num(b))) >>

\* let f = fn(a) { a / 0 }; f(3); 5
ProgDivideInCallee ==
    << LetStatement("f", FunctionLiteral(<<"a">>,
          <<ES(InfixExpression(Id("a"), "/", Num(0)))>>)),
       ES(Call("f", <<Num(3)>>)),
       ES(Num(5)) >>

\* Statements that programs are composed of, all about the names x, f, g.
StmtPool ==
    << LetStatement("x", Num(1)),                                \* let x = 1;
       LetStatement("x", ReturnInIf(2)),       \* let x = if (true) { return 2; };
       AssignStatement("x", Num(3)),                                 \* x = 3;
       ES(Id("x")),                                                  \* x;
       ReturnStatement(Id("x")),                                     \* return x;
       \* let f = fn(x) { if (x) { return x; } 0 };
       LetStatement("f", FunctionLiteral(<<"x">>,
          << ES(IfExpression(Id("x"), <<ReturnStatement(Id("x"))>>, NoAlternative)),
             ES(Num(0)) >>)),
       ES(Call("f", <<Num(4)>>)),                                    \* f(4);
       \* let f = fn() { x = x + 1; x };
       LetStatement("f", FunctionLiteral(<<>>,
          << AssignStatement("x", InfixExpression(Id("x"), "+", Num(1))),
             ES(Id("x")) >>)),
       ES(Call("f", <<>>)),                                          \* f();
       ES(InfixExpression(Id("x"), "/", Num(0))),                    \* x / 0;
       \* if (x) { let x = 5; x } else { !x }
       ES(IfExpression(Id("x"), <<LetStatement("x", Num(5)), ES(Id("x"))>>,
                       BlockStatement(<<ES(PrefixExpression("!", Id("x")))>>))),
       \* let g = fn() { return if (true) { return 6; }; };
       LetStatement("g", FunctionLiteral(<<>>, <<ReturnStatement(ReturnInIf(6))>>)),
       ES(Call("g", <<>>)),                                          \* g();
       ES(Call("f", <<ReturnInIf(7)>>)),        \* f(if (true) { return 7; });
       ES(InfixExpression(BooleanLiteral(TRUE), "+", Id("x"))),      \* true + x;
       ES(IfExpression(BooleanLiteral(TRUE), <<>>, NoAlternative)),  \* if (true) {}
       ES(PrefixExpression("-", Id("x"))) >>                         \* -x;

CuratedPrograms ==
    << ProgReturnInCallee, ProgReturnDeepInCallee, ProgCalleeOfCallee,
       ProgLetOfReturn, ProgReturnOfReturn, ProgCallReturnOfReturn,
       ProgArgumentOfReturn, ProgBlockLetOfReturn, ProgNestedIfReturn,
       ProgNestedIfReturnThenMore, ProgReturnThenLet, ProgErrorThenAssign,
       ProgThreeValues, ProgErrorInCallee, ProgErrorInCalleeOfCallee,
       ProgClosureSeesLaterLet, ProgClosureSeesLaterAssign,
       ProgClosureSeesLaterLetInFrame, ProgParameterShadows,
       ProgCallerFrameInvisible, ProgCallerBindingKept, ProgLetTwice,
       ProgLetShadowsOuter, ProgLetShadowsThenTwice, ProgLetOfParameter,
       ProgTooManyArguments, ProgTooFewArguments, ProgCallOrder,
       ProgCalleeError, ProgArgumentError, ProgBooleanReadBack,
       ProgEmptyBranchInBlock, ProgEmptyBody, ProgLetBoundOfError,
       ProgLetUnboundOfError, ProgNestedDefinitions, ProgLetInIfShadows,
       ProgLetInIfThenUse,
       ProgBuiltin,
       ProgDivideInCallee >>

\* The operators of an infix expression.
InfixOperators == {"+", "-", "*", "/", "<", ">", "==", "!=", "<=", ">="}

\* Expressions of every kind of value Eval produces: 0, 2, -2, true, false,
\* "a", "", fn() { 1 }, len, if (false) { 1 }
Operands ==
    << Num(0), Num(2), PrefixExpression("-", Num(2)), BooleanLiteral(TRUE),
       BooleanLiteral(FALSE), StringLiteral("a"), StringLiteral(""),
       FunctionLiteral(<<>>, <<ES(Num(1))>>), Id("len"),
       IfExpression(BooleanLiteral(FALSE), <<ES(Num(1))>>, NoAlternative) >>

\* Bounds of the inputs.
MaxStmts == 2

MaxCalls == 3

MaxInt == 2

\* No parser takes part in an evaluation of a given AST.
NoParser == [l |-> <<>>, pos |-> 0, errors |-> <<>>, loops |-> <<>>]

(***************************************************************************)
(* The evaluation of one program, Eval(program, object.NewEnvironment()):  *)
(* evalProgram, one action per round of its loop.                          *)
(*   program  the Statements of the *ast.Program                           *)
(*   idx      the statement the loop is at                                 *)
(*   result   evalProgram's variable result, then the returned value       *)
(*   vals     the value Eval returned for each statement so far            *)
(*   heap     the environments; heap[1] is env                             *)
(*   log      the history of the evaluation                                *)
(*   pc       "loop", "returned" or "panicked"                             *)
(*   parser   the *parser.Parser in use, if any                            *)
(*   printed  the Program a parser built and its String(), if printed      *)
(***************************************************************************)
VARIABLES program, idx, result, vals, heap, log, pc, parser, printed

vars == <<program, idx, result, vals, heap, log, pc, parser, printed>>

Init ==
    /\ \/ \E i \in 1..Len(CuratedPrograms) : program = CuratedPrograms[i]
       \/ \E k \in 1..MaxCalls : program \in {ProgCounter(k), ProgSiblings(k)}
       \/ \E a \in -MaxInt..MaxInt, b \in -MaxInt..MaxInt :
             program = ProgDivide(a, b)
       \/ \E op \in InfixOperators :
             \/ program = ProgInfixOrder(op)
             \/ program = ProgInfixLeftError(op)
             \/ program = ProgInfixLeftCallError(op)
       \/ \E i \in 1..Len(Operands) :
             \/ program = ProgIfElse(Operands[i])
             \/ program = ProgBang(Operands[i])
             \/ \E j \in 1..Len(Operands), op \in InfixOperators :
                   program = ProgInfix(op, Operands[i], Operands[j])
       \/ \E n \in 0..MaxStmts : \E ix \in [1..n -> 1..Len(StmtPool)] :
             program = [j \in 1..n |-> StmtPool[ix[j]]]
    /\ idx = 1
    /\ result = nil
    /\ vals = <<>>
    /\ heap = NewEnvironment
    /\ log = <<>>
    /\ pc = "loop"
    /\ parser = NoParser
    /\ printed = <<>>

\* evalProgram without the case *object.Error (as it was before errors were
\* added: src/evaluator/evaluator.go).
programStatementOutcome_NoErrorCase(val) ==
    IF val.type = RETURN_VALUE_OBJ THEN "return" ELSE "next"

\* The type switch of evalProgram on the value of a statement.
programStatementOutcome(val) ==
    IF val.type = RETURN_VALUE_OBJ THEN "return"
    ELSE IF val.type = ERROR_OBJ THEN "error"
    ELSE "next"

\* result = Eval(statement, env) of the current round.
Step == Eval(program[idx], 1, [heap |-> heap, log |-> log])

Evaluated(r) ==
    /\ vals' = Append(vals, r.val)
    /\ heap' = r.heap
    /\ log' = r.log

\* case *object.ReturnValue: return result.Value
ProgramReturn ==
    /\ pc = "loop" /\ idx <= Len(program)
    /\ LET r == Step
       IN  /\ ~IsPanic(r.val)
           /\ programStatementOutcome(r.val) = "return"
           /\ result' = r.val.Value
           /\ Evaluated(r)
    /\ pc' = "returned"
    /\ UNCHANGED <<program, idx, parser, printed>>

\* case *object.Error: return result
ProgramError ==
    /\ pc = "loop" /\ idx <= Len(program)
    /\ LET r == Step
       IN  /\ ~IsPanic(r.val)
           /\ programStatementOutcome(r.val) = "error"
           /\ result' = r.val
           /\ Evaluated(r)
    /\ pc' = "returned"
    /\ UNCHANGED <<program, idx, parser, printed>>

\* Neither case: the loop goes on with the next statement.
ProgramNext ==
    /\ pc = "loop" /\ idx <= Len(program)
    /\ LET r == Step
       IN  /\ ~IsPanic(r.val)
           /\ programStatementOutcome(r.val) = "next"
           /\ result' = r.val
           /\ Evaluated(r)
    /\ idx' = idx + 1
    /\ UNCHANGED <<program, pc, parser, printed>>

\* The loop is over: return result
ProgramEnd ==
    /\ pc = "loop" /\ idx > Len(program)
    /\ pc' = "returned"
    /\ UNCHANGED <<program, idx, result, vals, heap, log, parser, printed>>

\* A panic somewhere below Eval(statement, env) ends the process.
ProgramPanic ==
    /\ pc = "loop" /\ idx <= Len(program)
    /\ LET r == Step
       IN  /\ IsPanic(r.val)
           /\ result' = r.val
           /\ Evaluated(r)
    /\ pc' = "panicked"
    /\ UNCHANGED <<program, idx, parser, printed>>

Next == ProgramReturn \/ ProgramError \/ ProgramNext \/ ProgramEnd \/ ProgramPanic

Spec == Init /\ [][Next]_vars

(***************************************************************************)
(* The Environment on its own: any sequence of calls of its methods on     *)
(* the frames allocated so far.  `log` holds the record of the last call   *)
(* only: its receiver, arguments and results and the heap before and       *)
(* after it.                                                               *)
(***************************************************************************)
MaxFrames == 3

MaxBindings == 3

EnvNames == {"x", "y"}

EnvValues == {NewInteger(1), NewInteger(2)}

EnvInit ==
    /\ program = <<>>
    /\ idx = 0
    /\ result = nil
    /\ vals = <<>>
    /\ heap = NewEnvironment
    /\ log = <<>>
    /\ pc = "env"
    /\ parser = NoParser
    /\ printed = <<>>

\* object.NewEnclosedEnviroment(outer)
CallNewEnclosedEnviroment ==
    /\ Len(heap) < MaxFrames
    /\ \E outer \in DOMAIN heap :
          /\ heap' = NewEnclosedEnviroment(heap, outer)
          /\ log' = << [k |-> "NewEnclosedEnviroment", env |-> Len(heap'),
                       outer |-> outer, before |-> heap, after |-> heap'] >>
    /\ UNCHANGED <<program, idx, result, vals, pc, parser, printed>>

\* e.Get(name)
CallGet ==
    /\ \E e \in DOMAIN heap, name \in EnvNames :
          LET g == Get(heap, e, name)
          IN  log' = << [k |-> "Get", env |-> e, name |-> name, obj |-> g.obj,
                        ok |-> g.ok, before |-> heap, after |-> heap] >>
    /\ UNCHANGED <<program, idx, result, vals, heap, pc, parser, printed>>

\* e.GetLocal(name)
CallGetLocal ==
    /\ \E e \in DOMAIN heap, name \in EnvNames :
          LET g == GetLocal(heap, e, name)
          IN  log' = << [k |-> "GetLocal", env |-> e, name |-> name,
                        obj |-> g.obj, ok |-> g.ok, before |-> heap,
                        after |-> heap] >>
    /\ UNCHANGED <<program, idx, result, vals, heap, pc, parser, printed>>

\* The number of bindings of the frames 1..n of h.
RECURSIVE NumBindings(_, _)
NumBindings(h, n) ==
    IF n = 0 THEN 0 ELSE Cardinality(DOMAIN h[n].store) + NumBindings(h, n - 1)

\* e.Set(name, val)
CallSet ==
    /\ \E e \in DOMAIN heap, name \in EnvNames, val \in EnvValues :
          /\ name \in DOMAIN heap[e].store
                \/ NumBindings(heap, Len(heap)) < MaxBindings
          /\ heap' = Set(heap, e, name, val)
          /\ log' = << [k |-> "Set", env |-> e, name |-> name, val |-> val,
                       before |-> heap, after |-> heap'] >>
    /\ UNCHANGED <<program, idx, result, vals, pc, parser, printed>>

\* e.Assign(name, val)
CallAssign ==
    /\ \E e \in DOMAIN heap, name \in EnvNames, val \in EnvValues :
          LET a == Assign(heap, e, name, val)
          IN  /\ heap' = a.heap
              /\ log' = << [k |-> "Assign", env |-> e, name |-> name,
                           val |-> val, ret |-> a.ret, before |-> heap,
                           after |-> a.heap] >>
    /\ UNCHANGED <<program, idx, result, vals, pc, parser, printed>>

EnvNext ==
    CallNewEnclosedEnviroment \/ CallGet \/ CallGetLocal \/ CallSet \/ CallAssign

EnvSpec == EnvInit /\ [][EnvNext]_vars

(***************************************************************************)
(* package token.  A TokenType is written as the name of its constant, a   *)
(* Literal (a Go string) as the sequence of its characters, so that the    *)
(* text String() prints can be cut into tokens again.                      *)
(***************************************************************************)
Token(type, literal) == [Type |-> type, Literal |-> literal]

keywords ==
    << [ident |-> <<"f", "n">>, tok |-> "FUNCTION"],
       [ident |-> <<"l", "e", "t">>, tok |-> "LET"],
       [ident |-> <<"t", "r", "u", "e">>, tok |-> "TRUE"],
       [ident |-> <<"f", "a", "l", "s", "e">>, tok |-> "FALSE"],
       [ident |-> <<"i", "f">>, tok |-> "IF"],
       [ident |-> <<"e", "l", "s", "e">>, tok |-> "ELSE"],
       [ident |-> <<"r", "e", "t", "u", "r", "n">>, tok |-> "RETURN"] >>

LookupIdent(ident) ==
    IF \E i \in DOMAIN keywords : keywords[i].ident = ident
    THEN keywords[CHOOSE i \in DOMAIN keywords : keywords[i].ident = ident].tok
    ELSE "IDENT"

DetermineNumberType(number) ==
    IF \E i \in DOMAIN number : number[i] = "." THEN "FLOAT" ELSE "INT"

(***************************************************************************)
(* package lexer, after section 4.1 of the specification: the text is a    *)
(* sequence of characters, NextToken reads one token at the cursor.        *)
(***************************************************************************)
Letters ==
    {"a", "b", "c", "d", "e", "f", "g", "h", "i", "j", "k", "l", "m", "n",
     "o", "p", "q", "r", "s", "t", "u", "v", "w", "x", "y", "z", "_"}

Digits == {"0", "1", "2", "3", "4", "5", "6", "7", "8", "9"}

Whitespace == {" ", "\t", "\n", "\r"}

\* The kinds of the one-character tokens.
Punctuation ==
    [c \in {"=", "+", "-", "!", "*", "/", "<", ">", ".", ",", ";", ":", "(",
            ")", "{", "}", "[", "]"} |->
        CASE c = "=" -> "ASSIGN"   [] c = "+" -> "PLUS"     [] c = "-" -> "MINUS"
          [] c = "!" -> "BANG"     [] c = "*" -> "ASTERISK" [] c = "/" -> "SLASH"
          [] c = "<" -> "LT"       [] c = ">" -> "GT"       [] c = "." -> "DOT"
          [] c = "," -> "COMMA"    [] c = ";" -> "SEMICOLON"
          [] c = ":" -> "COLON"    [] c = "(" -> "LPAREN"   [] c = ")" -> "RPAREN"
          [] c = "{" -> "LBRACE"   [] c = "}" -> "RBRACE"
          [] c = "[" -> "LBRACKET" [] c = "]" -> "RBRACKET"]

\* The kinds of the operators read with one character of lookahead.
TwoCharacter ==
    [c \in {"=", "!", "<", ">"} |->
        CASE c = "=" -> "EQ" [] c = "!" -> "NOT_EQ" [] c = "<" -> "LTE"
          [] c = ">" -> "GTE"]

\* The first position from i on whose character is not in set.
RECURSIVE readWhile(_, _, _)
readWhile(text, i, set) ==
    IF i <= Len(text) /\ text[i] \in set THEN readWhile(text, i + 1, set) ELSE i

\* One call of NextToken with the cursor at i: the token and the new cursor.
NextToken(text, i) ==
    LET start == readWhile(text, i, Whitespace)
        c == text[start]
        \* [0-9]+(\.[0-9]+)? from position k: the position after the number.
        readNumber(k) ==
            LET j == readWhile(text, k, Digits)
            IN  IF j + 1 <= Len(text) /\ text[j] = "." /\ text[j + 1] \in Digits
                THEN readWhile(text, j + 1, Digits)
                ELSE j
        \* The first position from k on past the characters of a string.
        readString(k) == readWhile(text, k, {text[j] : j \in DOMAIN text} \ {"\""})
    IN  IF start > Len(text) THEN [tok |-> Token("EOF", <<>>), next |-> start]
        ELSE IF c \in DOMAIN TwoCharacter /\ start < Len(text)
                /\ text[start + 1] = "="
        THEN [tok |-> Token(TwoCharacter[c], <<c, "=">>), next |-> start + 2]
        ELSE IF c \in DOMAIN Punctuation
        THEN [tok |-> Token(Punctuation[c], <<c>>), next |-> start + 1]
        ELSE IF c \in Letters
        THEN LET end == readWhile(text, start, Letters \cup Digits)
                 ident == SubSeq(text, start, end - 1)
             IN  [tok |-> Token(LookupIdent(ident), ident), next |-> end]
        ELSE IF c \in Digits
        THEN LET end == readNumber(start)
                 number == SubSeq(text, start, end - 1)
             IN  [tok |-> Token(DetermineNumberType(number), number),
                  next |-> end]
        ELSE IF c = "\""
        THEN LET end == readString(start + 1)
                 str == SubSeq(text, start + 1, end - 1)
             IN  IF end > Len(text)
                 THEN [tok |-> Token("ILLEGAL", str), next |-> end]
                 ELSE [tok |-> Token("STRING", str), next |-> end + 1]
        ELSE [tok |-> Token("ILLEGAL", <<c>>), next |-> start + 1]

\* The tokens NextToken yields before the first EOF.
Lex(text) ==
    LET RECURSIVE Tokens(_)
        Tokens(i) ==
            LET t == NextToken(text, i)
            IN  IF t.tok.Type = "EOF" THEN <<>> ELSE <<t.tok>> \o Tokens(t.next)
    IN  Tokens(1)

\* The i-th token of a lexer that yields the tokens l: EOF after the last.
TokenAt(l, i) == IF i <= Len(l) THEN l[i] ELSE Token("EOF", <<>>)

(***************************************************************************)
(* package parser.  A *Parser is the record                                *)
(*   l       the tokens its lexer yields before EOF                        *)
(*   pos     the place of curToken in l (peekToken is the one after)       *)
(*   errors  the messages, each the format and its arguments               *)
(*   loops   history: for every round of a loop of the parser, the pos     *)
(*           at its start and at its end                                   *)
(* A parse function takes the parser and yields [ast, p]: the node it      *)
(* returns and the parser it leaves.                                       *)
(***************************************************************************)
LOWEST == 1

ASSIGN == 3

EQUALS == 4

LESSGREATER == 5

SUM == 6

PRODUCT == 7

PREFIX == 8

CALL == 9

INDEX == 10

\* A table in which * and / bind no tighter than + and -.
precedences_ProductIsSum ==
    [ASSIGN |-> ASSIGN, EQ |-> EQUALS, NOT_EQ |-> EQUALS, LT |-> LESSGREATER,
     GT |-> LESSGREATER, LTE |-> LESSGREATER, GTE |-> LESSGREATER,
     PLUS |-> SUM, MINUS |-> SUM, SLASH |-> SUM, ASTERISK |-> SUM,
     LPAREN |-> CALL, LBRACKET |-> INDEX]

precedences ==
    [ASSIGN |-> ASSIGN, EQ |-> EQUALS, NOT_EQ |-> EQUALS, LT |-> LESSGREATER,
     GT |-> LESSGREATER, LTE |-> LESSGREATER, GTE |-> LESSGREATER,
     PLUS |-> SUM, MINUS |-> SUM, SLASH |-> PRODUCT, ASTERISK |-> PRODUCT,
     LPAREN |-> CALL, LBRACKET |-> INDEX]

\* The token kinds New registers a prefix parse function for.
prefixParseFns ==
    {"IDENT", "INT", "FLOAT", "STRING", "FALSE", "TRUE", "BANG", "MINUS",
     "LPAREN", "IF", "FUNCTION", "LBRACKET", "LBRACE"}

\* The token kinds New registers an infix parse function for.
infixParseFns ==
    {"ASSIGN", "PLUS", "MINUS", "SLASH", "ASTERISK", "EQ", "NOT_EQ", "LT",
     "GT", "LTE", "GTE", "LPAREN", "LBRACKET"}

\* The parser after the two calls of nextToken: curToken is the first token.
New(l) == [l |-> l, pos |-> 1, errors |-> <<>>, loops |-> <<>>]

curToken(ps) == TokenAt(ps.l, ps.pos)

peekToken(ps) == TokenAt(ps.l, ps.pos + 1)

nextToken(ps) == [ps EXCEPT !.pos = @ + 1]

curTokenIs(ps, t) == curToken(ps).Type = t

peekTokenIs(ps, t) == peekToken(ps).Type = t

peekPrecedence(ps) ==
    IF peekToken(ps).Type \in DOMAIN precedences
    THEN precedences[peekToken(ps).Type]
    ELSE LOWEST

curPrecedence(ps) ==
    IF curToken(ps).Type \in DOMAIN precedences
    THEN precedences[curToken(ps).Type]
    ELSE LOWEST

peekError(ps, t) ==
    [ps EXCEPT !.errors =
        Append(@, <<"expected next token to be %s, got %s instead", t,
                    peekToken(ps).Type>>)]

noPrefixParseFnError(ps, t) ==
    [ps EXCEPT !.errors =
        Append(@, <<"no prefix parse function for %s found", t>>)]

\* An expectPeek that reports nothing when the token is not the expected one.
expectPeek_Silent(ps, t) ==
    IF peekTokenIs(ps, t)
    THEN [ok |-> TRUE, p |-> nextToken(ps)]
    ELSE [ok |-> FALSE, p |-> ps]

expectPeek(ps, t) ==
    IF peekTokenIs(ps, t)
    THEN [ok |-> TRUE, p |-> nextToken(ps)]
    ELSE [ok |-> FALSE, p |-> peekError(ps, t)]

\* History: one round of the named loop began at from and ends now.
Looped(ps, loop, from) ==
    [ps EXCEPT !.loops = Append(@, [loop |-> loop, from |-> from,
                                    to |-> ps.pos])]

\* The nil interface value (`return nil` of a function that returns an
\* ast.Expression), and a nil pointer of the given type in an interface.
NilNode == [node |-> "nil", type |-> "nil"]

NilPointer(type) == [node |-> "nil", type |-> type]

\* stmt != nil, exp != nil of an interface value.
IsNilInterface(n) == n.node = "nil" /\ n.type = "nil"

\* A slice: nil, or the elements.
NilSlice == [isNil |-> TRUE, elems |-> <<>>]

Slice(elems) == [isNil |-> FALSE, elems |-> elems]

Parsed(n, ps) == [ast |-> n, p |-> ps]

\* strconv.ParseInt(literal, 0, 64) of a literal far below the int64 range:
\* decimal, or octal after a leading 0 (then 8 and 9 are syntax errors).
ParseInt(literal) ==
    LET DigitValue(c) ==
            CASE c = "0" -> 0 [] c = "1" -> 1 [] c = "2" -> 2 [] c = "3" -> 3
              [] c = "4" -> 4 [] c = "5" -> 5 [] c = "6" -> 6 [] c = "7" -> 7
              [] c = "8" -> 8 [] c = "9" -> 9
        \* The number the first n digits write in the given base.
        RECURSIVE NumberIn(_, _)
        NumberIn(base, n) ==
            IF n = 0 THEN 0
            ELSE base * NumberIn(base, n - 1) + DigitValue(literal[n])
    IN
    IF literal = <<>> \/ \E i \in DOMAIN literal : literal[i] \notin Digits
    THEN [value |-> 0, err |-> TRUE]
    ELSE IF Len(literal) > 1 /\ literal[1] = "0"
    THEN IF \E i \in DOMAIN literal : literal[i] \in {"8", "9"}
         THEN [value |-> 0, err |-> TRUE]
         ELSE [value |-> NumberIn(8, Len(literal)), err |-> FALSE]
    ELSE [value |-> NumberIn(10, Len(literal)), err |-> FALSE]

\* strconv.ParseFloat(literal, 64) of digits with at most one point among
\* them; the value is kept as the decimal text.
ParseFloat(literal) ==
    IF /\ \E i \in DOMAIN literal : literal[i] \in Digits
       /\ \A i \in DOMAIN literal : literal[i] \in Digits \cup {"."}
       /\ Cardinality({i \in DOMAIN literal : literal[i] = "."}) <= 1
    THEN [value |-> literal, err |-> FALSE]
    ELSE [value |-> literal, err |-> TRUE]

parseIdentifier(ps) ==
    Parsed([node |-> "Identifier", Token |-> curToken(ps),
            Value |-> curToken(ps).Literal], ps)

parseIntegerLiteral(ps) ==
    LET n == ParseInt(curToken(ps).Literal)
    IN  IF n.err
        THEN Parsed(NilNode,
                    [ps EXCEPT !.errors =
                        Append(@, <<"could not parse %q as integer",
                                    curToken(ps).Literal>>)])
        ELSE Parsed([node |-> "IntegerLiteral", Token |-> curToken(ps),
                     Value |-> n.value], ps)

parseFloatLiteral(ps) ==
    LET n == ParseFloat(curToken(ps).Literal)
    IN  IF n.err
        THEN Parsed(NilNode,
                    [ps EXCEPT !.errors =
                        Append(@, <<"could not parse %q as integer",
                                    curToken(ps).Literal>>)])
        ELSE Parsed([node |-> "FloatLiteral", Token |-> curToken(ps),
                     Value |-> n.value], ps)

parseBooleanLiteral(ps) ==
    Parsed([node |-> "BooleanLiteral", Token |-> curToken(ps),
            Value |-> curTokenIs(ps, "TRUE")], ps)

parseStringLiteral(ps) ==
    Parsed([node |-> "StringLiteral", Token |-> curToken(ps),
            Value |-> curToken(ps).Literal], ps)

\* F of the value of e: the statements after `r := e` of a function body.
With(e, F(_)) == CHOOSE y \in {F(r) : r \in {e}} : TRUE

RECURSIVE parseExpression(_, _)
RECURSIVE parseExpressionLoop(_, _, _)
RECURSIVE parseStatement(_)
RECURSIVE parseBlockStatement(_)
RECURSIVE parseBlockStatementLoop(_, _)
RECURSIVE parseExpressionListLoop(_, _, _)
RECURSIVE parseHashLiteralLoop(_, _)

parsePrefixExpression(ps) ==
    With(parseExpression(nextToken(ps), PREFIX), LAMBDA right :
    Parsed([node |-> "PrefixExpression", Token |-> curToken(ps),
            Operator |-> curToken(ps).Literal, Right |-> right.ast], right.p))

\* A right operand parsed one level below the operator's own.
parseInfixExpression_RightOneLevelLower(ps, left) ==
    With(parseExpression(nextToken(ps), curPrecedence(ps) - 1), LAMBDA right :
    Parsed([node |-> "InfixExpression", Token |-> curToken(ps),
            Left |-> left, Operator |-> curToken(ps).Literal,
            Right |-> right.ast], right.p))

parseInfixExpression(ps, left) ==
    With(parseExpression(nextToken(ps), curPrecedence(ps)), LAMBDA right :
    Parsed([node |-> "InfixExpression", Token |-> curToken(ps),
            Left |-> left, Operator |-> curToken(ps).Literal,
            Right |-> right.ast], right.p))

parseGroupedExpression(ps) ==
    With(parseExpression(nextToken(ps), LOWEST), LAMBDA exp :
    With(expectPeek(exp.p, "RPAREN"), LAMBDA rparen :
    IF ~rparen.ok THEN Parsed(NilNode, rparen.p)
    ELSE Parsed(exp.ast, rparen.p)))

\* parseIfExpression from `if !p.peekTokenIs(token.ELSE)` on.
parseElse(ie, ps) ==
    IF ~peekTokenIs(ps, "ELSE") THEN Parsed(ie, ps)
    ELSE With(expectPeek(nextToken(ps), "LBRACE"), LAMBDA lbrace :
         IF ~lbrace.ok THEN Parsed(NilNode, lbrace.p)
         ELSE With(parseBlockStatement(lbrace.p), LAMBDA alternative :
              Parsed([ie EXCEPT !.Alternative = alternative.ast],
                     alternative.p)))

parseIfExpression(ps) ==
    With(expectPeek(ps, "LPAREN"), LAMBDA lparen :
    IF ~lparen.ok THEN Parsed(NilNode, lparen.p)
    ELSE With(parseExpression(nextToken(lparen.p), LOWEST), LAMBDA condition :
         With(expectPeek(condition.p, "RPAREN"), LAMBDA rparen :
         IF ~rparen.ok THEN Parsed(NilNode, rparen.p)
         ELSE With(expectPeek(rparen.p, "LBRACE"), LAMBDA lbrace :
              IF ~lbrace.ok THEN Parsed(NilNode, lbrace.p)
              ELSE With(parseBlockStatement(lbrace.p), LAMBDA consequence :
                   parseElse([node |-> "IfExpression", Token |-> curToken(ps),
                              Condition |-> condition.ast,
                              Consequence |-> consequence.ast,
                              Alternative |->
                                  NilPointer("*ast.BlockStatement")],
                             consequence.p))))))

\* for !p.curTokenIs(token.RBRACE) && !p.curTokenIs(token.EOF)
parseBlockStatementLoop(ps, statements) ==
    IF ~curTokenIs(ps, "RBRACE") /\ ~curTokenIs(ps, "EOF")
    THEN With(parseStatement(ps), LAMBDA stmt :
         parseBlockStatementLoop(
             Looped(nextToken(stmt.p), "parseBlockStatement", ps.pos),
             Append(statements, stmt.ast)))
    ELSE Parsed(statements, ps)

parseBlockStatement(ps) ==
    With(parseBlockStatementLoop(nextToken(ps), <<>>), LAMBDA loop :
    Parsed([node |-> "BlockStatement", Token |-> curToken(ps),
            Statements |-> loop.ast], loop.p))

\* for p.peekTokenIs(token.COMMA) of parseFunctionParameters
RECURSIVE parseFunctionParametersLoop(_, _)
parseFunctionParametersLoop(ps, ids) ==
    IF peekTokenIs(ps, "COMMA")
    THEN With(expectPeek(nextToken(ps), "IDENT"), LAMBDA ident :
         IF ~ident.ok THEN [ok |-> FALSE, ids |-> ids, p |-> ident.p]
         ELSE parseFunctionParametersLoop(
                  Looped(ident.p, "parseFunctionParameters", ps.pos),
                  Append(ids, parseIdentifier(ident.p).ast)))
    ELSE [ok |-> TRUE, ids |-> ids, p |-> ps]

parseFunctionParameters(ps) ==
    IF peekTokenIs(ps, "RPAREN") THEN Parsed(Slice(<<>>), nextToken(ps))
    ELSE With(expectPeek(ps, "IDENT"), LAMBDA ident :
         IF ~ident.ok THEN Parsed(NilSlice, ident.p)
         ELSE With(parseFunctionParametersLoop(
                       ident.p, <<parseIdentifier(ident.p).ast>>), LAMBDA loop :
              IF ~loop.ok THEN Parsed(NilSlice, loop.p)
              ELSE With(expectPeek(loop.p, "RPAREN"), LAMBDA rparen :
                   IF ~rparen.ok THEN Parsed(NilSlice, rparen.p)
                   ELSE Parsed(Slice(loop.ids), rparen.p))))

parseFunctionLiteral(ps) ==
    With(expectPeek(ps, "LPAREN"), LAMBDA lparen :
    IF ~lparen.ok THEN Parsed(NilNode, lparen.p)
    ELSE With(parseFunctionParameters(lparen.p), LAMBDA parameters :
         With(expectPeek(parameters.p, "LBRACE"), LAMBDA lbrace :
         IF ~lbrace.ok THEN Parsed(NilNode, lbrace.p)
         ELSE With(parseBlockStatement(lbrace.p), LAMBDA body :
              Parsed([node |-> "FunctionLiteral", Token |-> curToken(ps),
                      Parameters |-> parameters.ast, Body |-> body.ast],
                     body.p)))))

\* for p.peekTokenIs(token.COMMA) of parseCallExpressionArguments and of
\* parseArrayLiteral
parseExpressionListLoop(ps, list, loop) ==
    IF peekTokenIs(ps, "COMMA")
    THEN With(parseExpression(nextToken(nextToken(ps)), LOWEST), LAMBDA exp :
         parseExpressionListLoop(Looped(exp.p, loop, ps.pos),
                                 Append(list, exp.ast), loop))
    ELSE Parsed(list, ps)

parseCallExpressionArguments(ps) ==
    IF curTokenIs(nextToken(ps), "RPAREN")
    THEN Parsed(Slice(<<>>), nextToken(ps))
    ELSE With(parseExpression(nextToken(ps), LOWEST), LAMBDA first :
         With(parseExpressionListLoop(first.p, <<first.ast>>,
                                      "parseCallExpressionArguments"),
              LAMBDA rest :
         With(expectPeek(rest.p, "RPAREN"), LAMBDA rparen :
         IF ~rparen.ok THEN Parsed(NilSlice, rparen.p)
         ELSE Parsed(Slice(rest.ast), rparen.p))))

\* The Token of the node is the token current when the struct is built; it
\* takes no part in String().
parseCallExpression(ps, left) ==
    With(parseCallExpressionArguments(ps), LAMBDA arguments :
    Parsed([node |-> "CallExpression", Function |-> left,
            Arguments |-> arguments.ast], arguments.p))

parseArrayLiteral(ps) ==
    IF curTokenIs(nextToken(ps), "RBRACKET")
    THEN Parsed([node |-> "ArrayLiteral", Token |-> curToken(ps),
                 Elements |-> <<>>], nextToken(ps))
    ELSE With(parseExpression(nextToken(ps), LOWEST), LAMBDA first :
         With(parseExpressionListLoop(first.p, <<first.ast>>,
                                      "parseArrayLiteral"), LAMBDA rest :
         With(expectPeek(rest.p, "RBRACKET"), LAMBDA rbracket :
         IF ~rbracket.ok THEN Parsed(NilNode, rbracket.p)
         ELSE Parsed([node |-> "ArrayLiteral", Token |-> curToken(ps),
                      Elements |-> rest.ast], rbracket.p))))

parseIndexExpression(ps, left) ==
    With(parseExpression(nextToken(ps), LOWEST), LAMBDA index :
    With(expectPeek(index.p, "RBRACKET"), LAMBDA rbracket :
    IF ~rbracket.ok THEN Parsed(NilNode, rbracket.p)
    ELSE Parsed([node |-> "IndexExpression", Token |-> curToken(ps),
                 Left |-> left, Index |-> index.ast], rbracket.p)))

parseKeyValPair(ps) ==
    With(parseExpression(ps, LOWEST), LAMBDA key :
    With(expectPeek(key.p, "COLON"), LAMBDA colon :
    IF ~colon.ok
    THEN [key |-> key.ast, val |-> NilNode, ok |-> FALSE, p |-> colon.p]
    ELSE With(parseExpression(nextToken(colon.p), LOWEST), LAMBDA val :
         [key |-> key.ast, val |-> val.ast, ok |-> TRUE, p |-> val.p])))

\* for p.peekTokenIs(token.COMMA) of parseHashLiteral.  Pairs, a map keyed
\* by the pointers of the key nodes, is the sequence of its pairs in the
\* order they were put.
parseHashLiteralLoop(ps, pairs) ==
    IF peekTokenIs(ps, "COMMA")
    THEN With(parseKeyValPair(nextToken(nextToken(ps))), LAMBDA kv :
         IF ~kv.ok THEN [ok |-> FALSE, pairs |-> pairs, p |-> kv.p]
         ELSE parseHashLiteralLoop(
                  Looped(kv.p, "parseHashLiteral", ps.pos),
                  Append(pairs, [key |-> kv.key, val |-> kv.val])))
    ELSE [ok |-> TRUE, pairs |-> pairs, p |-> ps]

parseHashLiteral(ps) ==
    IF curTokenIs(nextToken(ps), "RBRACE")
    THEN Parsed([node |-> "HashLiteral", Token |-> curToken(ps),
                 Pairs |-> <<>>], nextToken(ps))
    ELSE With(parseKeyValPair(nextToken(ps)), LAMBDA kv :
         IF ~kv.ok THEN Parsed(NilNode, kv.p)
         ELSE With(parseHashLiteralLoop(
                       kv.p, <<[key |-> kv.key, val |-> kv.val]>>),
                   LAMBDA loop :
              IF ~loop.ok THEN Parsed(NilNode, loop.p)
              ELSE With(expectPeek(loop.p, "RBRACE"), LAMBDA rbrace :
                   IF ~rbrace.ok THEN Parsed(NilNode, rbrace.p)
                   ELSE Parsed([node |-> "HashLiteral", Token |-> curToken(ps),
                                Pairs |-> loop.pairs], rbrace.p))))

\* A right operand parsed at the level of = itself.
parseAssignExpression_OwnLevel(ps, left) ==
    With(parseExpression(nextToken(ps), ASSIGN), LAMBDA value :
    Parsed([node |-> "AssignExpression", Token |-> curToken(ps),
            Left |-> left, Value |-> value.ast], value.p))

parseAssignExpression(ps, left) ==
    With(parseExpression(nextToken(ps), ASSIGN - 1), LAMBDA value :
    Parsed([node |-> "AssignExpression", Token |-> curToken(ps),
            Left |-> left, Value |-> value.ast], value.p))

\* p.prefixParseFns[p.curToken.Type]()
prefix(ps) ==
    LET t == curToken(ps).Type
    IN  CASE t = "IDENT" -> parseIdentifier(ps)
          [] t = "INT" -> parseIntegerLiteral(ps)
          [] t = "FLOAT" -> parseFloatLiteral(ps)
          [] t = "STRING" -> parseStringLiteral(ps)
          [] t \in {"FALSE", "TRUE"} -> parseBooleanLiteral(ps)
          [] t \in {"BANG", "MINUS"} -> parsePrefixExpression(ps)
          [] t = "LPAREN" -> parseGroupedExpression(ps)
          [] t = "IF" -> parseIfExpression(ps)
          [] t = "FUNCTION" -> parseFunctionLiteral(ps)
          [] t = "LBRACKET" -> parseArrayLiteral(ps)
          [] t = "LBRACE" -> parseHashLiteral(ps)

\* p.infixParseFns[p.curToken.Type](left)
infix(ps, left) ==
    LET t == curToken(ps).Type
    IN  CASE t = "ASSIGN" -> parseAssignExpression(ps, left)
          [] t = "LPAREN" -> parseCallExpression(ps, left)
          [] t = "LBRACKET" -> parseIndexExpression(ps, left)
          [] OTHER -> parseInfixExpression(ps, left)

\* for !p.peekTokenIs(token.SEMICOLON) && precedence < p.peekPrecedence()
parseExpressionLoop(ps, precedence, leftExp) ==
    IF ~peekTokenIs(ps, "SEMICOLON") /\ precedence < peekPrecedence(ps)
    THEN IF peekToken(ps).Type \notin infixParseFns THEN Parsed(leftExp, ps)
         ELSE With(infix(nextToken(ps), leftExp), LAMBDA exp :
              parseExpressionLoop(Looped(exp.p, "parseExpression", ps.pos),
                                  precedence, exp.ast))
    ELSE Parsed(leftExp, ps)

parseExpression(ps, precedence) ==
    IF curToken(ps).Type \notin prefixParseFns
    THEN Parsed(NilNode, noPrefixParseFnError(ps, curToken(ps).Type))
    ELSE With(prefix(ps), LAMBDA leftExp :
         parseExpressionLoop(leftExp.p, precedence, leftExp.ast))

\* if p.peekTokenIs(token.SEMICOLON) { p.nextToken() }
skipSemicolon(ps) == IF peekTokenIs(ps, "SEMICOLON") THEN nextToken(ps) ELSE ps

parseLetStatement(ps) ==
    With(expectPeek(ps, "IDENT"), LAMBDA ident :
    IF ~ident.ok THEN Parsed(NilPointer("*ast.LetStatement"), ident.p)
    ELSE With(expectPeek(ident.p, "ASSIGN"), LAMBDA assign :
         IF ~assign.ok THEN Parsed(NilPointer("*ast.LetStatement"), assign.p)
         ELSE With(parseExpression(nextToken(assign.p), LOWEST), LAMBDA value :
              Parsed([node |-> "LetStatement", Token |-> curToken(ps),
                      Name |-> parseIdentifier(ident.p).ast,
                      Value |-> value.ast], skipSemicolon(value.p)))))

parseReturnStatement(ps) ==
    With(parseExpression(nextToken(ps), LOWEST), LAMBDA value :
    Parsed([node |-> "ReturnStatement", Token |-> curToken(ps),
            ReturnValue |-> value.ast], skipSemicolon(value.p)))

parseFunctionDeclarationStatement(ps) ==
    With(expectPeek(ps, "IDENT"), LAMBDA ident :
    IF ~ident.ok
    THEN Parsed(NilPointer("*ast.FunctionDeclarationStatement"), ident.p)
    ELSE With(expectPeek(ident.p, "LPAREN"), LAMBDA lparen :
         IF ~lparen.ok
         THEN Parsed(NilPointer("*ast.FunctionDeclarationStatement"), lparen.p)
         ELSE With(parseFunctionParameters(lparen.p), LAMBDA parameters :
              With(expectPeek(parameters.p, "LBRACE"), LAMBDA lbrace :
              IF ~lbrace.ok
              THEN Parsed(NilPointer("*ast.FunctionDeclarationStatement"),
                          lbrace.p)
              ELSE With(parseBlockStatement(lbrace.p), LAMBDA body :
                   Parsed([node |-> "FunctionDeclarationStatement",
                           Token |-> curToken(ps),
                           Name |-> parseIdentifier(ident.p).ast,
                           Parameters |-> parameters.ast, Body |-> body.ast],
                          body.p))))))

parseExpressionStatement(ps) ==
    With(parseExpression(ps, LOWEST), LAMBDA expression :
    Parsed([node |-> "ExpressionStatement", Token |-> curToken(ps),
            Expression |-> expression.ast], skipSemicolon(expression.p)))

parseStatement(ps) ==
    CASE curTokenIs(ps, "LET") -> parseLetStatement(ps)
      [] curTokenIs(ps, "RETURN") -> parseReturnStatement(ps)
      [] curTokenIs(ps, "FUNCTION") /\ peekTokenIs(ps, "IDENT") ->
            parseFunctionDeclarationStatement(ps)
      [] OTHER -> parseExpressionStatement(ps)

\* One round of the loop of ParseProgram that does not advance after the
\* statement.
ParseProgramRound_NoNextToken(ps, statements) ==
    With(parseStatement(ps), LAMBDA stmt :
    Parsed(IF ~IsNilInterface(stmt.ast) THEN Append(statements, stmt.ast)
           ELSE statements,
           Looped(stmt.p, "ParseProgram", ps.pos)))

\* One round of the loop of ParseProgram on the Statements so far: the
\* Statements and the parser after it.
ParseProgramRound(ps, statements) ==
    With(parseStatement(ps), LAMBDA stmt :
    Parsed(IF ~IsNilInterface(stmt.ast) THEN Append(statements, stmt.ast)
           ELSE statements,
           Looped(nextToken(stmt.p), "ParseProgram", ps.pos)))

(***************************************************************************)
(* package ast: String().  A text is the sequence of its characters.       *)
(***************************************************************************)
\* strings.Join(strs, sep)
RECURSIVE Join(_, _)
Join(strs, sep) ==
    IF strs = <<>> THEN <<>>
    ELSE IF Len(strs) = 1 THEN strs[1]
    ELSE strs[1] \o sep \o Join(Tail(strs), sep)

\* Whether String() of the node panics: a method called on a nil interface
\* value or on a nil pointer dereferences it.  LetStatement, ReturnStatement
\* and ExpressionStatement test their expression against nil first, and
\* IfExpression its Alternative.
RECURSIVE StringPanics(_)
StringPanics(n) ==
    LET any(nodes) == \E i \in DOMAIN nodes : StringPanics(nodes[i])
        guarded(e) == ~IsNilInterface(e) /\ StringPanics(e)
    IN  CASE n.node = "nil" -> TRUE
          [] n.node = "LetStatement" -> guarded(n.Value)
          [] n.node = "ReturnStatement" -> guarded(n.ReturnValue)
          [] n.node = "ExpressionStatement" -> guarded(n.Expression)
          [] n.node = "FunctionDeclarationStatement" -> StringPanics(n.Body)
          [] n.node = "BlockStatement" -> any(n.Statements)
          [] n.node = "AssignExpression" ->
                StringPanics(n.Left) \/ StringPanics(n.Value)
          [] n.node = "PrefixExpression" -> StringPanics(n.Right)
          [] n.node = "InfixExpression" ->
                StringPanics(n.Left) \/ StringPanics(n.Right)
          [] n.node = "IfExpression" ->
                \/ StringPanics(n.Condition)
                \/ StringPanics(n.Consequence)
                \/ n.Alternative.node # "nil" /\ StringPanics(n.Alternative)
          [] n.node = "FunctionLiteral" -> StringPanics(n.Body)
          [] n.node = "CallExpression" ->
                StringPanics(n.Function) \/ any(n.Arguments.elems)
          [] n.node = "ArrayLiteral" -> any(n.Elements)
          [] n.node = "IndexExpression" ->
                StringPanics(n.Left) \/ StringPanics(n.Index)
          [] n.node = "HashLiteral" ->
                \E i \in DOMAIN n.Pairs :
                    StringPanics(n.Pairs[i].key) \/ StringPanics(n.Pairs[i].val)
          [] OTHER -> FALSE

\* String() of a node on which it does not panic.  The pairs of a
\* HashLiteral are written in the order of the range over the map, here the
\* order they were put in: the literals printed hold one pair at most.
RECURSIVE String(_)
String(n) ==
    LET all(nodes) == [i \in DOMAIN nodes |-> String(nodes[i])]
        guarded(e) == IF ~IsNilInterface(e) THEN String(e) ELSE <<>>
    IN  CASE n.node = "LetStatement" ->
                n.Token.Literal \o <<" ">> \o String(n.Name) \o <<" ", "=", " ">>
                    \o guarded(n.Value) \o <<";">>
          [] n.node = "ReturnStatement" ->
                n.Token.Literal \o <<" ">> \o guarded(n.ReturnValue) \o <<";">>
          [] n.node = "ExpressionStatement" -> guarded(n.Expression)
          [] n.node = "FunctionDeclarationStatement" ->
                <<"f", "n", " ">> \o String(n.Name) \o <<"(">>
                    \o Join(all(n.Parameters.elems), <<",", " ">>)
                    \o <<")", " ">> \o String(n.Body)
          [] n.node = "BlockStatement" -> Join(all(n.Statements), <<" ">>)
          [] n.node = "AssignExpression" ->
                <<"(">> \o String(n.Left) \o <<"=">> \o String(n.Value)
                    \o <<")">>
          [] n.node = "Identifier" -> n.Value
          [] n.node \in {"IntegerLiteral", "FloatLiteral", "BooleanLiteral",
                         "StringLiteral"} -> n.Token.Literal
          [] n.node = "PrefixExpression" ->
                <<"(">> \o n.Operator \o String(n.Right) \o <<")">>
          [] n.node = "InfixExpression" ->
                <<"(">> \o String(n.Left) \o <<" ">> \o n.Operator \o <<" ">>
                    \o String(n.Right) \o <<")">>
          [] n.node = "IfExpression" ->
                <<"i", "f">> \o String(n.Condition) \o <<" ">>
                    \o String(n.Consequence)
                    \o (IF n.Alternative.node # "nil"
                        THEN <<"e", "l", "s", "e">> \o String(n.Alternative)
                        ELSE <<>>)
          [] n.node = "FunctionLiteral" ->
                <<"f", "n", "(">>
                    \o Join(all(n.Parameters.elems), <<",", " ">>)
                    \o <<")", " ">> \o String(n.Body)
          [] n.node = "CallExpression" ->
                String(n.Function) \o <<"(">>
                    \o Join(all(n.Arguments.elems), <<",", " ">>) \o <<")">>
          [] n.node = "ArrayLiteral" ->
                <<"[">> \o Join(all(n.Elements), <<",", " ">>) \o <<"]">>
          [] n.node = "IndexExpression" ->
                <<"(">> \o String(n.Left) \o <<"[">> \o String(n.Index)
                    \o <<"]", ")">>
          [] n.node = "HashLiteral" ->
                <<"{">>
                    \o Join([i \in DOMAIN n.Pairs |->
                                String(n.Pairs[i].key) \o <<":">>
                                    \o String(n.Pairs[i].val)], <<",", " ">>)
                    \o <<"}">>

\* (*Program).String() of the Statements
ProgramString(statements) ==
    Join([i \in DOMAIN statements |-> String(statements[i])], <<>>)

(***************************************************************************)
(* Token sequences (the inputs of the parser).                             *)
(***************************************************************************)
\* The literal of the tokens of a kind that has one spelling.
Lexeme(type) ==
    CASE type = "ASSIGN" -> <<"=">>        [] type = "PLUS" -> <<"+">>
      [] type = "MINUS" -> <<"-">>         [] type = "BANG" -> <<"!">>
      [] type = "ASTERISK" -> <<"*">>      [] type = "SLASH" -> <<"/">>
      [] type = "LT" -> <<"<">>            [] type = "LTE" -> <<"<", "=">>
      [] type = "GT" -> <<">">>            [] type = "GTE" -> <<">", "=">>
      [] type = "EQ" -> <<"=", "=">>       [] type = "NOT_EQ" -> <<"!", "=">>
      [] type = "DOT" -> <<".">>           [] type = "COMMA" -> <<",">>
      [] type = "SEMICOLON" -> <<";">>     [] type = "COLON" -> <<":">>
      [] type = "LPAREN" -> <<"(">>        [] type = "RPAREN" -> <<")">>
      [] type = "LBRACE" -> <<"{">>        [] type = "RBRACE" -> <<"}">>
      [] type = "LBRACKET" -> <<"[">>      [] type = "RBRACKET" -> <<"]">>
      [] type = "FUNCTION" -> <<"f", "n">> [] type = "LET" -> <<"l", "e", "t">>
      [] type = "TRUE" -> <<"t", "r", "u", "e">>
      [] type = "FALSE" -> <<"f", "a", "l", "s", "e">>
      [] type = "IF" -> <<"i", "f">>
      [] type = "ELSE" -> <<"e", "l", "s", "e">>
      [] type = "RETURN" -> <<"r", "e", "t", "u", "r", "n">>

\* The kinds of token that have one spelling.
FixedTypes ==
    {"ASSIGN", "PLUS", "MINUS", "BANG", "ASTERISK", "SLASH", "LT", "LTE", "GT",
     "GTE", "EQ", "NOT_EQ", "DOT", "COMMA", "SEMICOLON", "COLON", "LPAREN",
     "RPAREN", "LBRACE", "RBRACE", "LBRACKET", "RBRACKET", "FUNCTION", "LET",
     "TRUE", "FALSE", "IF", "ELSE", "RETURN"}

Kw(type) == Token(type, Lexeme(type))

Ident(name) == Token("IDENT", <<name>>)

IntTok(digit) == Token("INT", <<digit>>)

\* The kinds of the binary operators of the precedence table.
BinaryOperators ==
    {"ASSIGN", "EQ", "NOT_EQ", "LT", "GT", "LTE", "GTE", "PLUS", "MINUS",
     "SLASH", "ASTERISK"}

\* a op1 b op2 c
TokInfixPair(op1, op2) ==
    <<Ident("a"), Kw(op1), Ident("b"), Kw(op2), Ident("c")>>

\* -a op b and !a op b
TokPrefixThenInfix(pre, op) == <<Kw(pre), Ident("a"), Kw(op), Ident("b")>>

\* -a(b) and !a(b)
TokPrefixThenCall(pre) ==
    <<Kw(pre), Ident("a"), Kw("LPAREN"), Ident("b"), Kw("RPAREN")>>

\* -a[b] and !a[b]
TokPrefixThenIndex(pre) ==
    <<Kw(pre), Ident("a"), Kw("LBRACKET"), Ident("b"), Kw("RBRACKET")>>

\* x1 = x2 = ... = xn
RECURSIVE TokAssignChain(_)
TokAssignChain(n) ==
    IF n = 1 THEN <<Ident("x")>>
    ELSE <<Ident("x"), Kw("ASSIGN")>> \o TokAssignChain(n - 1)

\* Well-formed and ill-formed programs, one of every form.
TokenPrograms ==
    << \* let x = 1;
       <<Kw("LET"), Ident("x"), Kw("ASSIGN"), IntTok("1"), Kw("SEMICOLON")>>,
       \* return x;
       <<Kw("RETURN"), Ident("x"), Kw("SEMICOLON")>>,
       \* x; y
       <<Ident("x"), Kw("SEMICOLON"), Ident("y")>>,
       \* x y
       <<Ident("x"), Ident("y")>>,
       \* if (x) { y }
       <<Kw("IF"), Kw("LPAREN"), Ident("x"), Kw("RPAREN"), Kw("LBRACE"),
         Ident("y"), Kw("RBRACE")>>,
       \* if (x < y) { x } else { y }
       <<Kw("IF"), Kw("LPAREN"), Ident("x"), Kw("LT"), Ident("y"),
         Kw("RPAREN"), Kw("LBRACE"), Ident("x"), Kw("RBRACE"), Kw("ELSE"),
         Kw("LBRACE"), Ident("y"), Kw("RBRACE")>>,
       \* fn(a, b) { a + b }
       <<Kw("FUNCTION"), Kw("LPAREN"), Ident("a"), Kw("COMMA"), Ident("b"),
         Kw("RPAREN"), Kw("LBRACE"), Ident("a"), Kw("PLUS"), Ident("b"),
         Kw("RBRACE")>>,
       \* fn f(a) { return a; }
       <<Kw("FUNCTION"), Ident("f"), Kw("LPAREN"), Ident("a"), Kw("RPAREN"),
         Kw("LBRACE"), Kw("RETURN"), Ident("a"), Kw("SEMICOLON"),
         Kw("RBRACE")>>,
       \* let f = fn() { 1 };
       <<Kw("LET"), Ident("f"), Kw("ASSIGN"), Kw("FUNCTION"), Kw("LPAREN"),
         Kw("RPAREN"), Kw("LBRACE"), IntTok("1"), Kw("RBRACE"),
         Kw("SEMICOLON")>>,
       \* fn() { x; y }
       <<Kw("FUNCTION"), Kw("LPAREN"), Kw("RPAREN"), Kw("LBRACE"), Ident("x"),
         Kw("SEMICOLON"), Ident("y"), Kw("RBRACE")>>,
       \* fn() { if (x) { return 1; } }
       <<Kw("FUNCTION"), Kw("LPAREN"), Kw("RPAREN"), Kw("LBRACE"), Kw("IF"),
         Kw("LPAREN"), Ident("x"), Kw("RPAREN"), Kw("LBRACE"), Kw("RETURN"),
         IntTok("1"), Kw("SEMICOLON"), Kw("RBRACE"), Kw("RBRACE")>>,
       \* f(1, 2)
       <<Ident("f"), Kw("LPAREN"), IntTok("1"), Kw("COMMA"), IntTok("2"),
         Kw("RPAREN")>>,
       \* f()(x)
       <<Ident("f"), Kw("LPAREN"), Kw("RPAREN"), Kw("LPAREN"), Ident("x"),
         Kw("RPAREN")>>,
       \* [1, 2][0]
       <<Kw("LBRACKET"), IntTok("1"), Kw("COMMA"), IntTok("2"),
         Kw("RBRACKET"), Kw("LBRACKET"), IntTok("0"), Kw("RBRACKET")>>,
       \* {a: 1}
       <<Kw("LBRACE"), Ident("a"), Kw("COLON"), IntTok("1"), Kw("RBRACE")>>,
       \* {}
       <<Kw("LBRACE"), Kw("RBRACE")>>,
       \* "ab"
       <<Token("STRING", <<"a", "b">>)>>,
       \* (a + b) * c
       <<Kw("LPAREN"), Ident("a"), Kw("PLUS"), Ident("b"), Kw("RPAREN"),
         Kw("ASTERISK"), Ident("c")>>,
       \* true == !false
       <<Kw("TRUE"), Kw("EQ"), Kw("BANG"), Kw("FALSE")>>,
       \* 1.5 - 017
       <<Token("FLOAT", <<"1", ".", "5">>), Kw("MINUS"),
         Token("INT", <<"0", "1", "7">>)>>,
       \* 08
       <<Token("INT", <<"0", "8">>)>>,
       \* let x = if (a) { 1 } else { 2 };
       <<Kw("LET"), Ident("x"), Kw("ASSIGN"), Kw("IF"), Kw("LPAREN"),
         Ident("a"), Kw("RPAREN"), Kw("LBRACE"), IntTok("1"), Kw("RBRACE"),
         Kw("ELSE"), Kw("LBRACE"), IntTok("2"), Kw("RBRACE"),
         Kw("SEMICOLON")>>,
       \* a[0] = b
       <<Ident("a"), Kw("LBRACKET"), IntTok("0"), Kw("RBRACKET"),
         Kw("ASSIGN"), Ident("b")>>,
       \* @
       <<Token("ILLEGAL", <<"@">>)>> >>

\* The tokens put in the place of a token of a program, and the tokens of
\* the short sequences.
AllTokens ==
    {Kw(type) : type \in FixedTypes}
        \cup {Ident("a"), IntTok("1"), Token("STRING", <<"s">>),
              Token("ILLEGAL", <<"@">>)}

FewTokens ==
    {Kw(type) : type \in {"ASSIGN", "PLUS", "BANG", "LPAREN", "RPAREN",
                          "LBRACE", "RBRACE", "LBRACKET", "COMMA",
                          "SEMICOLON", "LET", "FUNCTION", "IF", "RETURN"}}
        \cup {Ident("a"), IntTok("1")}

\* The sequence l cut after a token, without one token, with one token
\* replaced.
Truncations(l) == {SubSeq(l, 1, k) : k \in 0..Len(l)}

Deletions(l) ==
    {SubSeq(l, 1, k - 1) \o SubSeq(l, k + 1, Len(l)) : k \in DOMAIN l}

Substitutions(l) == {[l EXCEPT ![k] = t] : k \in DOMAIN l, t \in AllTokens}

\* Bounds of the inputs of the parser.
MaxTokens == 3

MaxChain == 4

TokenInputs ==
    UNION {Truncations(TokenPrograms[i]) \cup Deletions(TokenPrograms[i])
               \cup Substitutions(TokenPrograms[i]) :
           i \in DOMAIN TokenPrograms}
    \cup {TokInfixPair(op1, op2) : op1 \in BinaryOperators,
                                   op2 \in BinaryOperators}
    \cup {TokPrefixThenInfix(pre, op) : pre \in {"MINUS", "BANG"},
                                        op \in BinaryOperators}
    \cup {TokPrefixThenCall(pre) : pre \in {"MINUS", "BANG"}}
    \cup {TokPrefixThenIndex(pre) : pre \in {"MINUS", "BANG"}}
    \cup {TokAssignChain(n) \o <<Kw("PLUS"), Ident("y")>> : n \in 1..MaxChain}
    \cup {TokAssignChain(n) : n \in 1..MaxChain}
    \cup UNION {[1..n -> FewTokens] : n \in 0..MaxTokens}

(***************************************************************************)
(* The parser at work: New(l).ParseProgram(), one action per round of its  *)
(* loop; then, when there is no error, the Program is printed and the      *)
(* text is lexed and parsed the same way.                                  *)
(*   parser   the *Parser                                                  *)
(*   program  the Statements of the *ast.Program built so far              *)
(*   printed  the Program of the first parse and its String()              *)
(*   pc       "parse", "parsed", "reparse", "reparsed" or "panicked"       *)
(***************************************************************************)
ParserInit ==
    /\ \E l \in TokenInputs : parser = New(l)
    /\ program = <<>>
    /\ printed = <<>>
    /\ pc = "parse"
    /\ idx = 0
    /\ result = nil
    /\ vals = <<>>
    /\ heap = NewEnvironment
    /\ log = <<>>

\* for p.curToken.Type != token.EOF { ... }
ParseProgramLoop ==
    /\ pc \in {"parse", "reparse"}
    /\ ~curTokenIs(parser, "EOF")
    /\ \E round \in {ParseProgramRound(parser, program)} :
           /\ program' = round.ast
           /\ parser' = round.p
    /\ UNCHANGED <<idx, result, vals, heap, log, pc, printed>>

\* return program
ParseProgramReturn ==
    /\ pc \in {"parse", "reparse"}
    /\ curTokenIs(parser, "EOF")
    /\ pc' = IF pc = "parse" THEN "parsed" ELSE "reparsed"
    /\ UNCHANGED <<program, idx, result, vals, heap, log, parser, printed>>

\* parser.New(lexer.New(program.String())) for a program without errors
PrintAndParseAgain ==
    /\ pc = "parsed"
    /\ parser.errors = <<>>
    /\ IF \E i \in DOMAIN program : StringPanics(program[i])
       THEN /\ pc' = "panicked"
            /\ UNCHANGED <<program, parser, printed>>
       ELSE \E text \in {ProgramString(program)} :
                /\ printed' = [program |-> program, text |-> text]
                /\ parser' = New(Lex(text))
                /\ program' = <<>>
            /\ pc' = "reparse"
    /\ UNCHANGED <<idx, result, vals, heap, log>>

ParserNext == ParseProgramLoop \/ ParseProgramReturn \/ PrintAndParseAgain

ParserSpec == ParserInit /\ [][ParserNext]_vars

\* A call of ParseProgram runs on: its next step is never put off for ever.
ParserFairSpec == ParserSpec /\ WF_vars(ParseProgramLoop \/ ParseProgramReturn)

(***************************************************************************)
(* Properties                                                              *)
(***************************************************************************)
IsReturnValue(obj) == obj.type = RETURN_VALUE_OBJ

\* A statement that is a call, or a let of a call.
IsCallStatement(stmt) ==
    \/ stmt.node = "ExpressionStatement" /\ stmt.Expression.node = "CallExpression"
    \/ stmt.node = "LetStatement" /\ stmt.Value.node = "CallExpression"

\* C1: a return executed inside a callee ends only that call.  Every call
\* whose body ended by a return yields the plain returned value (never a
\* ReturnValue), and a statement of the program that is a call never yields
\* a ReturnValue, so the statements after it are still evaluated.
C1_ReturnEndsOnlyTheCall ==
    /\ \A i \in DOMAIN log :
          (log[i].k = "call" /\ IsReturnValue(log[i].body))
             => /\ log[i].res = log[i].body.Value
                /\ ~IsReturnValue(log[i].res)
    /\ \A i \in DOMAIN vals :
          IsCallStatement(program[i]) => ~IsReturnValue(vals[i])

\* C2: a ReturnValue never leaks.  The result of the program is not a
\* ReturnValue, no environment binds a name to a ReturnValue, and no
\* ReturnValue is an operand of an operator or an argument of a call.
C2_ReturnValueNeverLeaks ==
    /\ pc = "returned" => ~IsReturnValue(result)
    /\ \A e \in DOMAIN heap : \A n \in DOMAIN heap[e].store :
          ~IsReturnValue(heap[e].store[n])
    /\ \A i \in DOMAIN log :
          /\ log[i].k = "infix"
                => ~IsReturnValue(log[i].left) /\ ~IsReturnValue(log[i].right)
          /\ log[i].k = "prefix" => ~IsReturnValue(log[i].right)
          /\ log[i].k = "call"
                => \A j \in DOMAIN log[i].args : ~IsReturnValue(log[i].args[j])

\* The first event after event i that is not the end of a block
\* (Len(log) + 1 if there is none).
AfterEnclosingBlocks(i) ==
    LET later == {j \in DOMAIN log : j > i /\ log[j].k # "block"}
    IN  IF later = {} THEN Len(log) + 1
        ELSE CHOOSE j \in later : \A m \in later : j <= m

\* C3: a return executed inside nested blocks terminates every enclosing
\* block up to the nearest function body or the program.  After a return
\* statement has wrapped the value v, nothing is evaluated but the ends of
\* the enclosing blocks, each of which passes ReturnValue(v) up, until the
\* call of the enclosing function returns v or the program returns v.
C3_ReturnTerminatesEnclosingBlocks ==
    \A i \in DOMAIN log :
       log[i].k = "return"
          => LET v == log[i].operand
                 stop == AfterEnclosingBlocks(i)
             IN  /\ \A j \in (i + 1)..(stop - 1) :
                       log[j].res = NewReturnValue(v)
                 /\ IF stop <= Len(log)
                    THEN log[stop].k = "call" /\ log[stop].res = v
                    ELSE pc = "returned" /\ result = v

\* The values at which the loop of evalProgram returns.
IsStop(val) == val.type \in {RETURN_VALUE_OBJ, ERROR_OBJ}

\* The program has returned with result v.
Returns(p, v) == (pc = "returned" /\ program = p) => result = v

C4_Inv ==
    /\ Len(vals) <= Len(program)
    /\ pc = "loop" => idx = Len(vals) + 1
    /\ \A i \in DOMAIN vals :
          IsStop(vals[i])
             => /\ i = Len(vals) /\ idx = i /\ pc = "returned"
                /\ result = IF IsReturnValue(vals[i]) THEN vals[i].Value
                                                     ELSE vals[i]
    /\ (pc = "returned" /\ \A i \in DOMAIN vals : ~IsStop(vals[i]))
          => /\ Len(vals) = Len(program)
             /\ Len(vals) > 0 => result = vals[Len(vals)]

\* C4: evalProgram evaluates the statements in source order, one per round,
\* and stops at the first statement whose value is a ReturnValue (the result
\* is the wrapped value) or an Error (the result is that Error): it is the
\* last statement evaluated, and nothing - environment, history, result -
\* changes after it.  If no statement yields either, all statements are
\* evaluated and the result is the value of the last one.
C4_ProgramStopsAtFirstReturnOrError ==
    /\ []C4_Inv
    /\ [][(\E i \in DOMAIN vals : IsStop(vals[i]))
             => UNCHANGED <<heap, log, vals, result>>]_vars

\* A program stopped by a ReturnValue or an Error before its last statement.
C4_Witness ==
    /\ pc = "returned"
    /\ Len(vals) > 0 /\ Len(vals) < Len(program)
    /\ IsStop(vals[Len(vals)])

\* C5: an Error that is the value of a statement of a block ends the block,
\* which returns it unchanged without evaluating the statements after it; a
\* call whose body yields an Error returns that Error unchanged; and once a
\* block or a call has returned an Error, every enclosing block and call
\* returns the same Error, nothing else is evaluated, and the Error is the
\* result of the program.
C5_ErrorPropagatesUnchanged ==
    \A i \in DOMAIN log :
       /\ log[i].k = "block"
             => \A j \in DOMAIN log[i].vals :
                   isError(log[i].vals[j])
                      => j = Len(log[i].vals) /\ log[i].res = log[i].vals[j]
       /\ (log[i].k = "call" /\ isError(log[i].body))
             => log[i].res = log[i].body
       /\ (log[i].k \in {"block", "call"} /\ isError(log[i].res))
             => /\ pc = "returned" /\ result = log[i].res
                /\ \A j \in (i + 1)..Len(log) :
                      log[j].k \in {"block", "call"} /\ log[j].res = log[i].res

\* An Error out of a block cut short, inside a callee of a callee.
C5_Witness ==
    /\ pc = "returned" /\ isError(result)
    /\ \E i, j, l \in DOMAIN log :
          /\ i < j /\ j < l
          /\ log[i].k = "block" /\ isError(log[i].res)
          /\ Len(log[i].vals) < log[i].n
          /\ log[j].k = "call" /\ log[l].k = "call"

\* C6: for every integer a, the program `a / 0` evaluates to an Error and
\* the evaluator does not panic.
C6_DivisionByZeroIsAnError ==
    \A a \in -MaxInt..MaxInt :
       (program = ProgDivide(a, 0) /\ pc # "loop")
          => pc = "returned" /\ isError(result)

\* The set of the parameter names of a function.
ParameterNames(fn) == {fn.Parameters[j] : j \in DOMAIN fn.Parameters}

\* C7: a Function holds the very environment its literal was evaluated in
\* (the same pointer, not a copy), and its call runs in a frame whose outer
\* is that environment as it is at the time of the call: a binding added or
\* changed between the definition and the call is the one the call reads.
C7_ClosureSharesEnvironment ==
    /\ \A i \in DOMAIN log :
          /\ log[i].k = "fnlit" => log[i].fn.Env = log[i].env
          /\ log[i].k = "call"
                => \A nm \in DOMAIN log[i].before[log[i].fn.Env].store
                                \ ParameterNames(log[i].fn) :
                      Get(log[i].bound, log[i].env, nm).obj
                         = log[i].before[log[i].fn.Env].store[nm]
    /\ Returns(ProgClosureSeesLaterLet, NewInteger(5))
    /\ Returns(ProgClosureSeesLaterAssign, NewInteger(2))
    /\ Returns(ProgClosureSeesLaterLetInFrame, NewInteger(7))

\* A function is called whose environment got a binding after the function
\* literal was evaluated, and the call has read it.
C7_Witness ==
    /\ pc = "returned"
    /\ \E i, j \in DOMAIN log :
          /\ i < j /\ log[i].k = "fnlit" /\ log[j].k = "call"
          /\ log[j].fn = log[i].fn
          /\ \E nm \in DOMAIN log[j].before[log[j].fn.Env].store :
                /\ \A l \in DOMAIN log :
                      (l < i /\ log[l].k = "let") => log[l].name # nm
                /\ result = log[j].before[log[j].fn.Env].store[nm]

\* C8: an assignment evaluated in a frame that does not bind the name itself
\* writes the innermost frame of the spine that binds it (the captured
\* frame) and no other frame, and creates no binding in the frame of the
\* invocation; so the i-th call of the counter closure returns i, and the
\* closure `get` sees what its sibling `inc` has written.
C8_AssignWritesCapturedFrame ==
    /\ \A i \in DOMAIN log :
          log[i].k = "assign"
             => LET ev == log[i]
                    g == getWithEnv(ev.before, ev.env, ev.name)
                IN  g.ok
                       => /\ Len(ev.after) = Len(ev.before)
                          /\ ev.after[g.env].store[ev.name] = ev.val
                          /\ \A e \in DOMAIN ev.before \ {g.env} :
                                ev.after[e] = ev.before[e]
                          /\ g.env # ev.env
                                => ev.name \notin DOMAIN ev.after[ev.env].store
    /\ \A k \in 1..MaxCalls :
          /\ (program = ProgCounter(k) /\ idx > 3) => result = NewInteger(idx - 3)
          /\ Returns(ProgCounter(k), NewInteger(k))
          /\ Returns(ProgSiblings(k), NewInteger(k))

\* The counter closure has been called MaxCalls times.
C8_Witness ==
    /\ pc = "returned" /\ program = ProgCounter(MaxCalls)
    /\ result = NewInteger(MaxCalls)
    /\ Cardinality({i \in DOMAIN log :
                       log[i].k = "assign" /\ log[i].env # 1
                       /\ "n" \notin DOMAIN log[i].before[log[i].env].store})
          = MaxCalls

\* C9: applyFunction evaluates the body in a fresh frame whose outer is the
\* captured environment of the function; binding the parameters writes only
\* the fresh frame (every frame that existed before the call is unchanged),
\* which binds exactly the parameters, each to its argument (the last one
\* of a name, should two parameters have the same name).  So a name
\* bound in the captured or in the caller's environment keeps its value over
\* the call, and a name bound only in the caller's frame is not found by the
\* callee.
C9_CallBindsInFreshFrame ==
    /\ \A i \in DOMAIN log :
          log[i].k = "call"
             => LET ev == log[i]
                IN  /\ ev.env = Len(ev.before) + 1
                    /\ Len(ev.bound) = ev.env
                    /\ ev.bound[ev.env].outer = ev.fn.Env
                    /\ \A e \in DOMAIN ev.before : ev.bound[e] = ev.before[e]
                    /\ DOMAIN ev.bound[ev.env].store = ParameterNames(ev.fn)
                    /\ \A j \in DOMAIN ev.fn.Parameters :
                          (\A l \in DOMAIN ev.fn.Parameters :
                              l > j => ev.fn.Parameters[l] # ev.fn.Parameters[j])
                             => ev.bound[ev.env].store[ev.fn.Parameters[j]]
                                   = ev.args[j]
    /\ Returns(ProgParameterShadows, NewInteger(1))
    /\ Returns(ProgCallerBindingKept, NewInteger(7))
    /\ Returns(ProgCallerFrameInvisible, newError("identifier not found: y"))

\* A call with a parameter whose name the captured environment binds too.
C9_Witness ==
    /\ pc = "returned"
    /\ \E i \in DOMAIN log :
          /\ log[i].k = "call"
          /\ \E nm \in ParameterNames(log[i].fn) :
                /\ nm \in DOMAIN log[i].before[log[i].fn.Env].store
                /\ heap[log[i].fn.Env].store[nm]
                      = log[i].before[log[i].fn.Env].store[nm]

\* C10: a let of a name that the current frame binds already yields the Error
\* `identifier exist: X` and changes no frame; a let of any other name, bound
\* in an outer frame or not, whose right-hand side is no Error binds the name
\* in the current frame and leaves every other frame, and every other name of
\* the current frame, unchanged.
C10_LetChecksCurrentFrameOnly ==
    /\ \A i \in DOMAIN log :
          log[i].k = "let"
             => LET ev == log[i]
                    local == ev.name \in DOMAIN ev.entry[ev.env].store
                IN  /\ local
                          => /\ ev.res = newError("identifier exist: " \o ev.name)
                             /\ ev.after = ev.entry
                    /\ ~local
                          => /\ ~isError(ev.res)
                             /\ ev.after[ev.env].store[ev.name] = ev.val
                             /\ ev.after[ev.env].outer = ev.before[ev.env].outer
                             /\ \A e \in DOMAIN ev.before \ {ev.env} :
                                   ev.after[e] = ev.before[e]
                             /\ \A n \in DOMAIN ev.before[ev.env].store \ {ev.name} :
                                   ev.after[ev.env].store[n]
                                      = ev.before[ev.env].store[n]
    /\ Returns(ProgLetTwice, newError("identifier exist: x"))
    /\ Returns(ProgLetShadowsOuter, NewInteger(1))
    /\ Returns(ProgLetOfParameter, newError("identifier exist: a"))

\* A let that shadowed the binding of an outer frame, then a let of a name
\* the current frame binds.
C10_Witness ==
    /\ pc = "returned" /\ isError(result)
    /\ \E i, j \in DOMAIN log :
          /\ i < j /\ log[i].k = "let" /\ log[j].k = "let"
          /\ log[i].name \notin DOMAIN log[i].entry[log[i].env].store
          /\ log[i].env # 1
          /\ log[i].name \in DOMAIN log[i].entry[1].store
          /\ log[i].after[1].store[log[i].name] = log[i].entry[1].store[log[i].name]
          /\ log[j].name \in DOMAIN log[j].entry[log[j].env].store

\* C11: an assignment whose target is bound in no frame of the spine yields
\* the Error `illegal assign, symbol not exist: X` as its result and creates
\* no binding in any frame.
C11_AssignUnboundIsAnError ==
    \A i \in DOMAIN log :
       log[i].k = "assign"
          => LET ev == log[i]
             IN  ~getWithEnv(ev.before, ev.env, ev.name).ok
                    => /\ ev.res = newError("illegal assign, symbol not exist: "
                                            \o ev.name)
                       /\ ev.after = ev.before

\* The frames from e outward to the root, innermost first.
RECURSIVE Spine(_, _)
Spine(h, e) == IF e = 0 THEN <<>> ELSE <<e>> \o Spine(h, h[e].outer)

\* The positions of the spine of e whose frame binds name.
Binders(h, e, name) ==
    {j \in DOMAIN Spine(h, e) : name \in DOMAIN h[Spine(h, e)[j]].store}

\* The innermost frame of the spine of e that binds name (0 if none does).
Owner(h, e, name) ==
    IF Binders(h, e, name) = {} THEN 0
    ELSE Spine(h, e)[CHOOSE j \in Binders(h, e, name) :
                        \A m \in Binders(h, e, name) : j <= m]

\* C12: Assign(name, v) overwrites the binding in the innermost frame of the
\* spine that binds name and returns v; every other frame and every other
\* name of that frame is unchanged, and no binding is created in the current
\* frame when an outer frame owns the name.  If no frame binds name it
\* returns the Error and changes no frame.
C12_AssignOverwritesOwner ==
    \A i \in DOMAIN log :
       log[i].k = "Assign"
          => LET ev == log[i]
                 o == Owner(ev.before, ev.env, ev.name)
             IN  /\ Len(ev.after) = Len(ev.before)
                 /\ o = 0
                       => /\ ev.ret = newError("illegal assign, symbol not exist: "
                                               \o ev.name)
                          /\ ev.after = ev.before
                 /\ o # 0
                       => /\ ev.ret = ev.val
                          /\ ev.after[o].store[ev.name] = ev.val
                          /\ ev.after[o].outer = ev.before[o].outer
                          /\ DOMAIN ev.after[o].store = DOMAIN ev.before[o].store
                          /\ \A n \in DOMAIN ev.before[o].store \ {ev.name} :
                                ev.after[o].store[n] = ev.before[o].store[n]
                          /\ \A e \in DOMAIN ev.before \ {o} :
                                ev.after[e] = ev.before[e]

\* An Assign on a frame that does not bind the name, which two outer frames
\* bind to different values: the nearer one was overwritten, the farther one
\* and the frame of the call were not.
C12_Witness ==
    \E i \in DOMAIN log :
       /\ log[i].k = "Assign"
       /\ LET ev == log[i]
              s == Spine(ev.before, ev.env)
          IN  /\ Len(s) = 3
              /\ ev.name \notin DOMAIN ev.before[s[1]].store
              /\ ev.name \in DOMAIN ev.before[s[2]].store
              /\ ev.name \in DOMAIN ev.before[s[3]].store
              /\ ev.before[s[2]].store[ev.name] # ev.val
              /\ ev.after[s[2]].store[ev.name] = ev.val
              /\ ev.after[s[3]].store[ev.name] # ev.val
              /\ ev.name \notin DOMAIN ev.after[s[1]].store

\* C13: Get(name) returns the value bound in the innermost frame of the
\* spine that binds name, and reports absent (nil, false) only when no frame
\* up to the root binds it; GetLocal(name) reports the binding of the
\* current frame only, whatever the outer frames bind.  Neither changes a
\* frame.
C13_GetWalksSpineGetLocalDoesNot ==
    \A i \in DOMAIN log :
       LET ev == log[i]
       IN  /\ ev.k = "Get"
                => LET o == Owner(ev.before, ev.env, ev.name)
                   IN  /\ ev.ok <=> o # 0
                       /\ ev.ok => ev.obj = ev.before[o].store[ev.name]
                       /\ ~ev.ok => IsNil(ev.obj)
                       /\ ev.after = ev.before
           /\ ev.k = "GetLocal"
                => /\ ev.ok <=> ev.name \in DOMAIN ev.before[ev.env].store
                   /\ ev.ok => ev.obj = ev.before[ev.env].store[ev.name]
                   /\ ~ev.ok => IsNil(ev.obj)
                   /\ ev.after = ev.before

\* A Get on a frame that does not bind the name, which its outer frame and
\* the root bind to different values: the value of the outer frame is
\* returned.
C13_Witness ==
    \E i \in DOMAIN log :
       /\ log[i].k = "Get"
       /\ LET ev == log[i]
              s == Spine(ev.before, ev.env)
          IN  /\ Len(s) = 3
              /\ ev.name \notin DOMAIN ev.before[s[1]].store
              /\ ev.name \in DOMAIN ev.before[s[2]].store
              /\ ev.name \in DOMAIN ev.before[s[3]].store
              /\ ev.before[s[2]].store[ev.name] # ev.before[s[3]].store[ev.name]
              /\ ev.ok /\ ev.obj = ev.before[s[2]].store[ev.name]

\* C14: applying a Function to a number of arguments different from the
\* number of its parameters yields the Error `args number mismatch, ...`;
\* the body is evaluated only by a call whose arguments match the
\* parameters in number, and after a mismatch no frame is created or
\* modified: the heap stays as it was when the function was applied, and the
\* Error is the result of the program.
C14_ArityMismatchIsAnError ==
    /\ \A i \in DOMAIN log :
          /\ log[i].k = "call" => Len(log[i].args) = Len(log[i].fn.Parameters)
          /\ log[i].k = "arity"
                => /\ Len(log[i].args) # Len(log[i].fn.Parameters)
                   /\ log[i].res
                         = newError("args number mismatch, expect lenght: "
                                    \o ToString(Len(log[i].fn.Parameters))
                                    \o ", but got: "
                                    \o ToString(Len(log[i].args)))
                   /\ heap = log[i].before
                   /\ \A j \in (i + 1)..Len(log) :
                         log[j].k \in {"block", "call"} /\ log[j].res = log[i].res
                   /\ pc = "returned" /\ result = log[i].res
    /\ Returns(ProgTooManyArguments,
               newError("args number mismatch, expect lenght: 1, but got: 2"))
    /\ Returns(ProgTooFewArguments,
               newError("args number mismatch, expect lenght: 2, but got: 1"))

\* A function applied, inside a callee, to more arguments than it has
\* parameters, after an argument has changed the environment.
C14_Witness ==
    /\ pc = "returned" /\ program = ProgTooManyArguments
    /\ \E i \in DOMAIN log :
          /\ log[i].k = "arity"
          /\ Len(log[i].args) > Len(log[i].fn.Parameters)
          /\ log[i].before[1].store["n"] = NewInteger(3)
          /\ heap[1].store["n"] = NewInteger(3)
          /\ Len(heap) = 3

\* The events of kind k in the history.
Events(k) == {i \in DOMAIN log : log[i].k = k}

\* C15: in an infix expression the left operand is evaluated before the
\* right one (the right operand sees what the left one has written, the
\* operator gets the operands in their places), and if the left operand
\* evaluates to an Error the right operand is not evaluated - none of its
\* calls or assignments take place - and that Error is the result.  The
\* operator is never applied to an Error.
C15_InfixLeftThenRight ==
    /\ \A i \in Events("infix") :
          ~isError(log[i].left) /\ ~isError(log[i].right)
    /\ \A op \in InfixOperators :
          /\ (program = ProgInfixOrder(op) /\ Len(vals) >= 4)
                => /\ vals[4] = evalInfixExpression(op, NewInteger(1),
                                                    NewInteger(4))
                   /\ heap[1].store["n"] = NewInteger(2)
                   /\ \E i \in Events("infix") :
                         /\ log[i].operator = op
                         /\ log[i].left = NewInteger(1)
                         /\ log[i].right = NewInteger(4)
          /\ (program = ProgInfixLeftError(op) /\ pc # "loop")
                => /\ pc = "returned" /\ Len(vals) = 3
                   /\ result = newError("identifier not found: zz")
                   /\ heap[1].store["n"] = NewInteger(0)
                   /\ Len(heap) = 1
                   /\ Events("call") = {} /\ Events("assign") = {}
          /\ (program = ProgInfixLeftCallError(op) /\ pc # "loop")
                => /\ pc = "returned" /\ Len(vals) = 4
                   /\ result = newError("type mismatch: BOOLEAN + INTEGER")
                   /\ heap[1].store["n"] = NewInteger(1)
                   /\ Len(heap) = 2
                   /\ Cardinality(Events("call")) = 1
                   /\ Cardinality(Events("assign")) = 1

\* The left operand, a call, has yielded an Error after it wrote n; the
\* right operand, whose call writes n too, has left no trace.
C15_Witness ==
    /\ pc = "returned"
    /\ \E op \in InfixOperators : program = ProgInfixLeftCallError(op)
    /\ isError(result)
    /\ heap[1].store["n"] = NewInteger(1)

\* C16: in a call the callee is evaluated first and then the arguments from
\* left to right.  If the callee evaluates to an Error no argument is
\* evaluated; the first argument that evaluates to an Error ends the
\* evaluation of the arguments, the function is not applied, and that Error
\* is the result of the call.  No function is applied to an Error.
C16_CalleeThenArgumentsInOrder ==
    /\ \A i \in Events("call") \cup Events("arity") :
          \A j \in DOMAIN log[i].args : ~isError(log[i].args[j])
    /\ (program = ProgCallOrder /\ Len(vals) >= 5)
          => /\ vals[5] = NewInteger(24)
             /\ heap[1].store["n"] = NewInteger(4)
    /\ (program = ProgCalleeError /\ pc # "loop")
          => /\ pc = "returned" /\ Len(vals) = 3
             /\ result = newError("identifier not found: zz")
             /\ heap[1].store["n"] = NewInteger(0)
             /\ Len(heap) = 1
             /\ Events("call") = {}
    /\ (program = ProgArgumentError /\ pc # "loop")
          => /\ pc = "returned" /\ Len(vals) = 4
             /\ result = newError("identifier not found: zz")
             /\ heap[1].store["n"] = NewInteger(1)
             /\ Len(heap) = 2
             /\ Cardinality(Events("call")) = 1
             /\ Events("arity") = {}

\* The second of three arguments has yielded an Error: the first argument
\* has been evaluated, the third has not, and the function was not applied.
C16_Witness ==
    /\ pc = "returned" /\ program = ProgArgumentError
    /\ isError(result)
    /\ heap[1].store["n"] = NewInteger(1)
    /\ Cardinality(Events("call")) = 1

\* The values the truthiness rule calls false: Null, false and zero.
Falsy(obj) ==
    \/ obj.type = NULL_OBJ
    \/ obj.type = BOOLEAN_OBJ /\ ~obj.Value
    \/ obj.type = INTEGER_OBJ /\ obj.Value = 0

\* The kinds of the values of a program.
IsValue(obj) ==
    obj.type \in {INTEGER_OBJ, BOOLEAN_OBJ, STRING_OBJ, NULL_OBJ, FUNCTION_OBJ,
                  BULTIN_OBJ}

\* C17: as the condition of an `if`, Null, false and 0 are falsy and every
\* other value - every string, function, builtin and non-zero integer - is
\* truthy: `if (v) { 1 } else { 2 }` is 1 for every such v and 2 for Null,
\* false and 0.
C17_TruthinessOfIf ==
    /\ \A i \in Events("if") :
          IsValue(log[i].condition)
             => (log[i].truthy <=> ~Falsy(log[i].condition))
    /\ \A j \in 1..Len(Operands) :
          (program = ProgIfElse(Operands[j]) /\ pc = "returned")
             => \E i \in Events("if") :
                   result = IF Falsy(log[i].condition) THEN NewInteger(2)
                                                       ELSE NewInteger(1)

\* C18: `!x` negates the truthiness that `if` uses: for every value x that
\* is no Error, `!x` is the canonical TRUE when isTruthy(x) is false and the
\* canonical FALSE when it is true; so `!0` is TRUE and `!n` is FALSE for
\* every integer n other than 0.
C18_BangNegatesTruthiness ==
    \A i \in Events("prefix") :
       (log[i].operator = "!" /\ IsValue(log[i].right))
          => IF isTruthy(log[i].right)
             THEN SamePointer(log[i].res, FalseObj)
             ELSE SamePointer(log[i].res, TrueObj)

\* The kinds of operands that have operators, and the operators of each.
Supports(type, operator) ==
    \/ type = INTEGER_OBJ
          /\ operator \in {"+", "-", "*", "/", "<", ">", "==", "!="}
    \/ type = BOOLEAN_OBJ /\ operator \in {"==", "!="}
    \/ type = STRING_OBJ /\ operator \in {"+", "==", "!="}

\* C19: the dispatch of an infix operator is total and yields errors as
\* values.  Operands of different kinds give the Error `type mismatch: L op
\* R`; operands of one kind with an operator the kind does not have give
\* the Error `unknown operator: L op R`; two booleans have only == and !=,
\* two strings only +, == and !=; and no combination of operands and
\* operator gives Null, no value at all, or a panic.
C19_InfixDispatchIsTotal ==
    \A i \in Events("infix") :
       LET ev == log[i]
           L == ev.left.type
           R == ev.right.type
           rest == " " \o ev.operator \o " " \o R
       IN  /\ ~IsPanic(ev.res) /\ ~IsNil(ev.res) /\ ev.res.type # NULL_OBJ
           /\ (IsValue(ev.left) /\ IsValue(ev.right))
                 => /\ L # R
                          => /\ isError(ev.res)
                             /\ ev.res.Message = "type mismatch: " \o L \o rest
                    /\ (L = R /\ ~Supports(L, ev.operator))
                          => /\ isError(ev.res)
                             /\ ev.res.Message = "unknown operator: " \o L \o rest
                    /\ (L = R /\ Supports(L, ev.operator))
                          => ev.res.type \in {INTEGER_OBJ, BOOLEAN_OBJ, STRING_OBJ}

\* A Boolean is TRUE or FALSE and a Null is NULL, also inside a ReturnValue.
RECURSIVE Canonical(_)
Canonical(obj) ==
    /\ obj.type = BOOLEAN_OBJ => obj.addr = (IF obj.Value THEN "TRUE" ELSE "FALSE")
    /\ obj.type = NULL_OBJ => obj.addr = "NULL"
    /\ obj.type = RETURN_VALUE_OBJ => Canonical(obj.Value)

\* C20: every Boolean produced during an evaluation - by a literal, a
\* comparison, a `!`, a read from the environment - is one of the objects
\* TRUE and FALSE, and every Null is the object NULL: those are the only
\* ones that are results, operands, conditions, arguments or bound in a
\* frame.  So the pointer comparisons of `!` and of isTruthy take every
\* Boolean and every Null for what it is: `!` of a Boolean is the other
\* Boolean, `!` of Null is TRUE, and a condition is truthy if it is a true
\* Boolean and falsy if it is a false one or Null.
C20_SingletonBooleansAndNull ==
    /\ Canonical(result)
    /\ \A i \in DOMAIN vals : Canonical(vals[i])
    /\ \A e \in DOMAIN heap : \A n \in DOMAIN heap[e].store :
          Canonical(heap[e].store[n])
    /\ \A i \in Events("infix") :
          Canonical(log[i].left) /\ Canonical(log[i].right) /\ Canonical(log[i].res)
    /\ \A i \in Events("call") :
          /\ Canonical(log[i].res)
          /\ \A j \in DOMAIN log[i].args : Canonical(log[i].args[j])
    /\ \A i \in Events("block") : Canonical(log[i].res)
    /\ \A i \in Events("prefix") :
          /\ Canonical(log[i].right) /\ Canonical(log[i].res)
          /\ (log[i].operator = "!" /\ log[i].right.type \in {BOOLEAN_OBJ, NULL_OBJ})
                => /\ log[i].res.type = BOOLEAN_OBJ
                   /\ log[i].res.Value
                         = (log[i].right.type = NULL_OBJ \/ ~log[i].right.Value)
    /\ \A i \in Events("if") :
          /\ Canonical(log[i].condition)
          /\ log[i].condition.type = BOOLEAN_OBJ
                => log[i].truthy = log[i].condition.Value
          /\ log[i].condition.type = NULL_OBJ => ~log[i].truthy

\* Booleans from a comparison and from `!`, and a Null, were bound, read
\* back, compared, negated and tested, and the program has returned TRUE.
C20_Witness ==
    /\ pc = "returned" /\ program = ProgBooleanReadBack
    /\ SamePointer(result, TrueObj)
    /\ SamePointer(heap[1].store["t"], TrueObj)
    /\ SamePointer(heap[1].store["f"], FalseObj)
    /\ SamePointer(heap[1].store["n"], NULL)

\* The level of a binary operator in the precedence table of the parser.
Level(op) ==
    CASE op = "ASSIGN" -> 3
      [] op \in {"EQ", "NOT_EQ"} -> 4
      [] op \in {"LT", "GT", "LTE", "GTE"} -> 5
      [] op \in {"PLUS", "MINUS"} -> 6
      [] op \in {"SLASH", "ASTERISK"} -> 7

\* The nodes of the expected trees.
AId(name) == [node |-> "Identifier", Token |-> Ident(name), Value |-> <<name>>]

ABinary(left, op, right) ==
    IF op = "ASSIGN"
    THEN [node |-> "AssignExpression", Token |-> Kw(op), Left |-> left,
          Value |-> right]
    ELSE [node |-> "InfixExpression", Token |-> Kw(op), Left |-> left,
          Operator |-> Lexeme(op), Right |-> right]

APrefix(op, right) ==
    [node |-> "PrefixExpression", Token |-> Kw(op), Operator |-> Lexeme(op),
     Right |-> right]

ACall(function, arguments) ==
    [node |-> "CallExpression", Function |-> function,
     Arguments |-> Slice(arguments)]

AIndex(left, index) ==
    [node |-> "IndexExpression", Token |-> Kw("LBRACKET"), Left |-> left,
     Index |-> index]

\* x = x = ... = last, the assignments nested to the right.
RECURSIVE AAssignChain(_, _)
AAssignChain(n, last) ==
    IF n = 1 THEN last
    ELSE ABinary(AId("x"), "ASSIGN", AAssignChain(n - 1, last))

\* ParseProgram has returned for the tokens l.
ParsedTokens(l) == pc \in {"parsed", "reparsed"} /\ parser.l = l

\* The Program is the one expression statement of exp, without errors.
IsExpression(exp) ==
    /\ parser.errors = <<>>
    /\ Len(program) = 1
    /\ program[1].node = "ExpressionStatement"
    /\ program[1].Expression = exp

\* Whenever ParseProgram has returned for the tokens l, the Program is the
\* expression exp.
ParsesAs(l, exp) == ParsedTokens(l) => IsExpression(exp)

\* C21: operator precedence.  For all binary operators op1, op2 of the
\* precedence table with level(op1) < level(op2), `a op1 b op2 c` parses as
\* `a op1 (b op2 c)` and `a op2 b op1 c` as `(a op2 b) op1 c`; a prefix - or
\* ! binds tighter than every binary operator (`-a op b` is `(-a) op b`) and
\* weaker than a call and an index (`-a(b)` is `-(a(b))`, `-a[b]` is
\* `-(a[b])`).
C21_OperatorPrecedence ==
    /\ \A op1 \in BinaryOperators, op2 \in BinaryOperators :
          Level(op1) < Level(op2) =>
             /\ ParsesAs(TokInfixPair(op1, op2),
                         ABinary(AId("a"), op1,
                                 ABinary(AId("b"), op2, AId("c"))))
             /\ ParsesAs(TokInfixPair(op2, op1),
                         ABinary(ABinary(AId("a"), op2, AId("b")), op1,
                                 AId("c")))
    /\ \A pre \in {"MINUS", "BANG"} :
          /\ \A op \in BinaryOperators :
                ParsesAs(TokPrefixThenInfix(pre, op),
                         ABinary(APrefix(pre, AId("a")), op, AId("b")))
          /\ ParsesAs(TokPrefixThenCall(pre),
                      APrefix(pre, ACall(AId("a"), <<AId("b")>>)))
          /\ ParsesAs(TokPrefixThenIndex(pre),
                      APrefix(pre, AIndex(AId("a"), AId("b"))))

\* `a + b * c` and `-a(b)` have been parsed.
C21_Witness ==
    \/ /\ ParsedTokens(TokInfixPair("PLUS", "ASTERISK"))
       /\ IsExpression(ABinary(AId("a"), "PLUS",
                               ABinary(AId("b"), "ASTERISK", AId("c"))))
    \/ /\ ParsedTokens(TokPrefixThenCall("MINUS"))
       /\ IsExpression(APrefix("MINUS", ACall(AId("a"), <<AId("b")>>)))

\* C22: left-associativity.  For every arithmetic or comparison operator,
\* and for any two such operators of the same precedence level,
\* `a op1 b op2 c` parses as `(a op1 b) op2 c`.
C22_LeftAssociativity ==
    \A op1 \in BinaryOperators \ {"ASSIGN"}, op2 \in BinaryOperators \ {"ASSIGN"} :
       Level(op1) = Level(op2) =>
          ParsesAs(TokInfixPair(op1, op2),
                   ABinary(ABinary(AId("a"), op1, AId("b")), op2, AId("c")))

\* `a - b + c` has been parsed as `(a - b) + c`.
C22_Witness ==
    /\ ParsedTokens(TokInfixPair("MINUS", "PLUS"))
    /\ IsExpression(ABinary(ABinary(AId("a"), "MINUS", AId("b")), "PLUS",
                            AId("c")))

\* C23: assignment is right-associative and binds weaker than every other
\* binary operator.  A chain `x = x = ... = x` of any length up to MaxChain
\* parses with the assignments nested to the right, also when the last
\* operand is `x + y`; `a = b op c` parses as `a = (b op c)` and
\* `a op b = c` as `(a op b) = c` for every other binary operator op.
C23_AssignmentRightAssociative ==
    /\ \A n \in 1..MaxChain :
          /\ ParsesAs(TokAssignChain(n), AAssignChain(n, AId("x")))
          /\ ParsesAs(TokAssignChain(n) \o <<Kw("PLUS"), Ident("y")>>,
                      AAssignChain(n, ABinary(AId("x"), "PLUS", AId("y"))))
    /\ ParsesAs(TokInfixPair("ASSIGN", "ASSIGN"),
                ABinary(AId("a"), "ASSIGN",
                        ABinary(AId("b"), "ASSIGN", AId("c"))))
    /\ \A op \in BinaryOperators \ {"ASSIGN"} :
          /\ ParsesAs(TokInfixPair("ASSIGN", op),
                      ABinary(AId("a"), "ASSIGN",
                              ABinary(AId("b"), op, AId("c"))))
          /\ ParsesAs(TokInfixPair(op, "ASSIGN"),
                      ABinary(ABinary(AId("a"), op, AId("b")), "ASSIGN",
                              AId("c")))

\* The longest chain has been parsed, and `a = b = c`.
C23_Witness ==
    \/ /\ ParsedTokens(TokAssignChain(MaxChain))
       /\ IsExpression(AAssignChain(MaxChain, AId("x")))
       /\ MaxChain >= 3
    \/ /\ ParsedTokens(TokInfixPair("ASSIGN", "ASSIGN"))
       /\ IsExpression(ABinary(AId("a"), "ASSIGN",
                               ABinary(AId("b"), "ASSIGN", AId("c"))))

\* C24: printable-form round trip.  For every program that parses without
\* errors, parsing the text String() prints yields no errors and a Program
\* equal to the first one.
C24_PrintableFormRoundTrip ==
    pc = "reparsed" =>
       /\ parser.errors = <<>>
       /\ program = printed.program

\* The rounds of the named loop, in order.
Rounds(loop) == SelectSeq(parser.loops, LAMBDA r : r.loop = loop)

\* Every round of every loop of the parser has consumed a token.
EveryRoundAdvances == \A i \in DOMAIN parser.loops :
                         parser.loops[i].to > parser.loops[i].from

\* The rounds of ParseProgram begin at the first token and each begins where
\* the one before it ended, whatever the errors; when ParseProgram has
\* returned, the last has ended beyond the last token.
RoundsCoverTheTokens ==
    LET rounds == Rounds("ParseProgram")
    IN  /\ rounds # <<>> => rounds[1].from = 1
        /\ \A i \in DOMAIN rounds : i > 1 => rounds[i].from = rounds[i - 1].to
        /\ rounds # <<>> => rounds[Len(rounds)].to = parser.pos
        /\ pc \in {"parsed", "reparsed"} => parser.pos > Len(parser.l)

\* C25: ParseProgram terminates without a crash on every token sequence,
\* malformed ones, unterminated blocks and statements without a `;`
\* included: it returns (and so does the parse of a printed text), every
\* round of every loop consumes at least one token, and after an error the
\* loop of ParseProgram goes on with the following tokens up to the end.
C25_ParseProgramTerminates ==
    /\ [](EveryRoundAdvances /\ RoundsCoverTheTokens)
    /\ (pc = "parse") ~> (pc = "parsed")
    /\ (pc = "reparse") ~> (pc = "reparsed")

\* ParseProgram has returned with errors for an input that ends inside a
\* block, after more than one round of its loop and of the loop of a block.
C25_Witness ==
    /\ pc = "parsed"
    /\ parser.errors # <<>>
    /\ Len(Rounds("ParseProgram")) > 1
    /\ Len(Rounds("parseBlockStatement")) > 1
    /\ \E i \in DOMAIN program :
          /\ program[i].node = "ExpressionStatement"
          /\ program[i].Expression.node = "FunctionLiteral"

\* Whether a node is absent in the tree of n: a nil statement or expression,
\* or a nil list of parameters or arguments.  An IfExpression without else
\* has no Alternative: that is not an absent node.
RECURSIVE HasAbsent(_)
HasAbsent(n) ==
    LET any(nodes) == \E i \in DOMAIN nodes : HasAbsent(nodes[i])
    IN  CASE n.node = "nil" -> TRUE
          [] n.node = "LetStatement" -> HasAbsent(n.Value)
          [] n.node = "ReturnStatement" -> HasAbsent(n.ReturnValue)
          [] n.node = "ExpressionStatement" -> HasAbsent(n.Expression)
          [] n.node = "FunctionDeclarationStatement" ->
                n.Parameters.isNil \/ HasAbsent(n.Body)
          [] n.node = "BlockStatement" -> any(n.Statements)
          [] n.node = "AssignExpression" -> HasAbsent(n.Left) \/ HasAbsent(n.Value)
          [] n.node = "PrefixExpression" -> HasAbsent(n.Right)
          [] n.node = "InfixExpression" -> HasAbsent(n.Left) \/ HasAbsent(n.Right)
          [] n.node = "IfExpression" ->
                \/ HasAbsent(n.Condition)
                \/ HasAbsent(n.Consequence)
                \/ n.Alternative.node # "nil" /\ HasAbsent(n.Alternative)
          [] n.node = "FunctionLiteral" ->
                n.Parameters.isNil \/ HasAbsent(n.Body)
          [] n.node = "CallExpression" ->
                \/ HasAbsent(n.Function)
                \/ n.Arguments.isNil
                \/ any(n.Arguments.elems)
          [] n.node = "ArrayLiteral" -> any(n.Elements)
          [] n.node = "IndexExpression" -> HasAbsent(n.Left) \/ HasAbsent(n.Index)
          [] n.node = "HashLiteral" ->
                \E i \in DOMAIN n.Pairs :
                    HasAbsent(n.Pairs[i].key) \/ HasAbsent(n.Pairs[i].val)
          [] OTHER -> FALSE

\* C26: whenever the parsing of a statement or of an expression has failed
\* (it yielded no node), a message has been appended to the errors; so with
\* an empty error list the Program holds no absent statement and no absent
\* sub-expression.
C26_NoNodeOnlyWithAnError ==
    (\E i \in DOMAIN program : HasAbsent(program[i])) => parser.errors # <<>>

\* ParseProgram has returned a Program with a nil statement and with a
\* statement whose expression is absent, and with errors.
C26_Witness ==
    /\ pc = "parsed"
    /\ parser.errors # <<>>
    /\ \E i \in DOMAIN program : program[i].node = "nil"
    /\ \E i \in DOMAIN program :
          program[i].node # "nil" /\ HasAbsent(program[i])

\* The panic of a method call on a nil object.
NilDereference ==
    Panic("runtime error: invalid memory address or nil pointer dereference")

\* C27: every evaluation returns a value and never nil: the value of every
\* statement, of every block and of every call is an object, a program or a
\* block without statements evaluates to Null, and no evaluation ends in the
\* panic of a nil object - a block goes on after a statement that is an `if`
\* whose taken branch is empty.
C27_EvalNeverReturnsNil ==
    /\ \A i \in DOMAIN vals : ~IsNil(vals[i]) /\ vals[i] # NilDereference
    /\ pc = "returned" => ~IsNil(result)
    /\ (pc = "returned" /\ program = <<>>) => SamePointer(result, NULL)
    /\ \A i \in Events("block") \cup Events("call") : ~IsNil(log[i].res)
    /\ Returns(ProgEmptyBranchInBlock, NewInteger(1))
    /\ program = ProgEmptyBranchInBlock => pc # "panicked"
    /\ (program = ProgEmptyBody /\ pc = "returned") => SamePointer(result, NULL)

\* C28: a let evaluates its right-hand side before it looks whether the name
\* is bound: if the right-hand side evaluates to an Error, that Error is the
\* result of the let (and what the right-hand side did has taken place),
\* also when the current frame binds the name already; and a let that fails,
\* either way, creates and changes no binding.
C28_LetEvaluatesValueFirst ==
    /\ \A i \in Events("let") : isError(log[i].res) => log[i].after = log[i].before
    /\ (program = ProgLetUnboundOfError /\ pc # "loop")
          => /\ pc = "returned" /\ Len(vals) = 3
             /\ result = newError("identifier not found: zz")
             /\ heap[1].store["n"] = NewInteger(1)
             /\ "y" \notin DOMAIN heap[1].store
    /\ (program = ProgLetBoundOfError /\ pc # "loop")
          => /\ pc = "returned" /\ Len(vals) = 4
             /\ result = newError("identifier not found: zz")
             /\ heap[1].store["n"] = NewInteger(1)
             /\ heap[1].store["x"] = NewInteger(1)

\* The functions that frame e binds.
BoundFunctions(e) ==
    {n \in DOMAIN heap[e].store : heap[e].store[n].type = FUNCTION_OBJ}

\* C29: the graph of the environments and the functions is acyclic.  The
\* outer chain of every frame is finite and ends at the root, and no frame
\* binds a function whose captured environment is that frame or a frame
\* that has it on its outer chain.
C29_ReferenceGraphIsAcyclic ==
    /\ \A e \in DOMAIN heap : heap[e].outer < e /\ (heap[e].outer = 0 <=> e = 1)
    /\ \A e \in DOMAIN heap : \A n \in BoundFunctions(e) :
          \A j \in DOMAIN Spine(heap, heap[e].store[n].Env) :
             Spine(heap, heap[e].store[n].Env)[j] # e

\* C29, amended: the outer chain of every frame is finite and ends at the
\* root - the outer of a frame is a frame allocated before it, and the root
\* alone has none - and every function that a frame binds has captured a
\* frame of the heap.  A frame may bind a function that has captured this
\* very frame: a let of a function literal does so.
C29_OuterChainEndsAtRoot ==
    /\ \A e \in DOMAIN heap : heap[e].outer < e /\ (heap[e].outer = 0 <=> e = 1)
    /\ \A e \in DOMAIN heap :
          /\ Spine(heap, e)[Len(Spine(heap, e))] = 1
          /\ \A n \in BoundFunctions(e) : heap[e].store[n].Env \in DOMAIN heap
    /\ \A i \in Events("let") :
          (log[i].val.type = FUNCTION_OBJ /\ log[i].val.Env = log[i].env)
             => log[i].after[log[i].env].store[log[i].name].Env = log[i].env

\* A frame at the end of an outer chain of three frames binds a function that
\* has captured that frame.
C29_Witness ==
    \E e \in DOMAIN heap :
       /\ Len(Spine(heap, e)) >= 3
       /\ \E n \in BoundFunctions(e) : heap[e].store[n].Env = e

\* C30: the block of an `if` branch is evaluated in a frame of its own: a
\* let in the block of a name that the enclosing scope binds shadows it (it
\* is no Error `identifier exist`), and a binding made in the block is not
\* there in the enclosing scope after the block.
C30_BlockHasItsOwnFrame ==
    /\ (program = ProgLetInIfShadows /\ Len(vals) >= 2)
          => /\ vals[2] = NewInteger(2)
             /\ heap[1].store["x"] = NewInteger(1)
    /\ Returns(ProgLetInIfShadows, NewInteger(1))
    /\ (program = ProgLetInIfThenUse /\ Len(vals) >= 1)
          => vals[1] = NewInteger(5) /\ "y" \notin DOMAIN heap[1].store
    /\ Returns(ProgLetInIfThenUse, newError("identifier not found: y"))

====
